---------------------------- MODULE Spec2Model ----------------------------
(***************************************************************************)
(* Model of the replay job engine, the decode pass and the frame codecs    *)
(* of app.py.                                                              *)
(*                                                                         *)
(* Replay: REPLAY_CACHE maps tokens to job entries; every job has one      *)
(* worker thread (run_replay_job); the HTTP handlers replay_stop,          *)
(* replay_resume and replay_status run on request threads.  A step of the  *)
(* model is one critical section on REPLAY_LOCK or one lock-free read of   *)
(* an entry, so that the interleavings of the threads are those the        *)
(* interpreter allows.                                                     *)
(***************************************************************************)
EXTENDS Integers, Sequences, FiniteSets, TLC

\* ------------------------------------------------------------- bounds
\* Number of uplink records of the scanned log (len(parsed)).
NumRecords == 3
\* Number of replay tokens that can be issued (starts and resumes together).
MaxJobs == 2
\* Number of start requests (the other tokens are issued by resume).
MaxStarts == 1
\* Number of request threads that can be inside replay_stop at once.
NumStoppers == 2

Tokens == 1..MaxJobs
Stoppers == 1..NumStoppers
\* Seconds after its last update at which an entry can be pruned.
REPLAY_CACHE_TTL == 1800
\* delay_ms values a start request can carry: no pacing, and a delay
\* longer than the cache TTL (the worker sleeps for any delay above 0).
DelayChoices == {0, REPLAY_CACHE_TTL * 1000 + 1}
\* Python's None for the optional arguments of append_replay_log.
None == -1

VARIABLES
  cache,      \* REPLAY_CACHE: token -> entry (with its place in the map)
  worker,     \* the run_replay_job thread of each token: position and locals
  stopper,    \* request threads inside replay_stop
  resumer,    \* the request thread inside replay_resume
  poller,     \* the page's poll() loop: token, received count, last snapshot
  parent,     \* token a job was resumed from (0: created by start)
  decode,     \* the request thread inside decode(): inputs, position, output
  progress,   \* DECODE_PROGRESS: progress id -> entry
  viewer,     \* the last GET /decode-progress: who asked, for what, the answer
  call        \* one application of a pure function: its input and its result

vars == <<cache, worker, stopper, resumer, poller, parent, decode, progress,
          viewer, call>>
replayVars == <<cache, worker, stopper, resumer, poller, parent>>
\* What the replay engine leaves alone.
otherVars == <<decode, progress, viewer, call>>

\* ------------------------------------------------------------- log lines
SentLine(idx) == [index |-> idx, status |-> "Sent"]
ErrorLine(idx) == [index |-> idx, status |-> "Error"]
\* replay_stop's synthetic line carries index "" (no record).
StoppedLine == [index |-> 0, status |-> "Stopped"]

RECURSIVE CountStatus(_, _)
CountStatus(log, st) ==
  IF log = <<>> THEN 0
  ELSE (IF log[Len(log)].status = st THEN 1 ELSE 0)
       + CountStatus(SubSeq(log, 1, Len(log) - 1), st)

\* The Sent/Error lines of a log, in log order.
RecordLines(log) == SelectSeq(log, LAMBDA l : l.status \in {"Sent", "Error"})

IsPrefix(s, t) == Len(s) <= Len(t) /\ SubSeq(t, 1, Len(s)) = s

\* ------------------------------------------------------------- the job map
\* A token that was never issued, and so is unknown to the map.
NoEntry ==
  [where |-> "unused", stale |-> FALSE, status |-> "none", total |-> 0,
   sent |-> 0, errors |-> 0, delay_ms |-> 0, start_index |-> 0,
   current_index |-> 0, log_lines |-> <<>>]

\* REPLAY_CACHE.get(token) is not None
InCache(c, t) == c[t].where = "cached"

\* prune_replay_cache: entries whose ts is older than REPLAY_CACHE_TTL are
\* deleted from the map (the entry object itself lives on for whoever
\* still holds a reference to it).
prune_replay_cache(c) ==
  [t \in Tokens |->
     IF c[t].where = "cached" /\ c[t].stale
     THEN [c[t] EXCEPT !.where = "evicted"]
     ELSE c[t]]

\* get_replay_job(token): prunes, then looks the token up.
get_replay_job(c) == prune_replay_cache(c)

\* store_replay_job: prunes, then inserts a fresh running entry.
store_replay_job(c, t, total, delay_ms, start_index, sent, errors, log_lines) ==
  [prune_replay_cache(c) EXCEPT ![t] =
     [where |-> "cached", stale |-> FALSE, status |-> "running",
      total |-> total, sent |-> sent, errors |-> errors,
      delay_ms |-> delay_ms, start_index |-> start_index,
      current_index |-> start_index, log_lines |-> log_lines]]

\* A faulty append_replay_log: the line is appended and the counters are
\* left for a later critical section.
append_replay_log_LineOnly(c, t, log_line, sent, errors) ==
  IF ~InCache(c, t) THEN c
  ELSE [c EXCEPT ![t] =
          [@ EXCEPT !.log_lines = Append(@, log_line), !.stale = FALSE]]

\* append_replay_log(token, log_line, sent, errors): one critical section.
append_replay_log(c, t, log_line, sent, errors) ==
  IF ~InCache(c, t) THEN c
  ELSE [c EXCEPT ![t] =
          [@ EXCEPT !.log_lines = Append(@, log_line),
                    !.sent = IF sent # None THEN sent ELSE @,
                    !.errors = IF errors # None THEN errors ELSE @,
                    !.stale = FALSE]]

\* update_replay_job(token, current_index=idx, sent=sent, errors=errors)
update_progress(c, t, idx, sent, errors) ==
  IF ~InCache(c, t) THEN c
  ELSE [c EXCEPT ![t] =
          [@ EXCEPT !.current_index = idx, !.sent = sent,
                    !.errors = errors, !.stale = FALSE]]

\* update_replay_job(token, status="stopped")
update_status(c, t, status) ==
  IF ~InCache(c, t) THEN c
  ELSE [c EXCEPT ![t] = [@ EXCEPT !.status = status, !.stale = FALSE]]

\* update_replay_job(token, status=status, sent=sent, errors=errors)
update_final(c, t, status, sent, errors) ==
  IF ~InCache(c, t) THEN c
  ELSE [c EXCEPT ![t] =
          [@ EXCEPT !.status = status, !.sent = sent, !.errors = errors,
                    !.stale = FALSE]]

\* ------------------------------------------------------------- session keys
\* A key string is a sequence of characters: 0..15 stand for the hex digits,
\* SepChar for one of the separators clean_hex removes, OtherChar for any
\* other character.
SepChar == 16
OtherChar == 17
HexDigits == 0..15

\* clean_hex: the separators are removed.
clean_hex(value) == SelectSeq(value, LAMBDA ch : ch # SepChar)

\* bytes.fromhex accepts pairs of hex digits.
IsHex(value) ==
  /\ Len(value) % 2 = 0
  /\ \A i \in 1..Len(value) : value[i] \in HexDigits

\* hex_to_bytes(value, label) returns (it raises ValueError otherwise): the
\* cleaned value is valid hex and is 16 bytes long.
KeyBytes == 16
hex_to_bytes_ok(value) ==
  /\ IsHex(clean_hex(value))
  /\ Len(clean_hex(value)) \div 2 = KeyBytes

\* get_missing_keys: the DevAddrs whose entry lacks a key or has a key
\* whose length is not 32 (an absent key reads as the empty string).
KeyChars == 32
IsMissing(entry) ==
  \/ entry.nwk_skey = <<>> \/ entry.app_skey = <<>>
  \/ Len(entry.nwk_skey) # KeyChars \/ Len(entry.app_skey) # KeyChars

get_missing_keys(devaddrs, credentials) ==
  {d \in devaddrs : IsMissing(credentials[d])}

\* ------------------------------------------------------------- decode inputs
\* Number of records of a decode batch.
MaxBatch == 2

DevAddrs == {"26011BDA", "260B5F3C"}

GoodKey == [i \in 1..32 |-> i % 16]
ShortKey == [i \in 1..30 |-> i % 16]
\* 32 characters, one of them not a hex digit.
NonHexKey == [i \in 1..32 |-> IF i = 7 THEN OtherChar ELSE i % 16]
\* 32 characters with separators among them ("00:01:02:...").
SeparatedKey == [i \in 1..32 |-> IF i % 3 = 0 THEN SepChar ELSE i % 16]
NoKey == <<>>

\* What the credential store can hold for a DevAddr (no entry, or an entry
\* without keys, reads as two absent keys).
EntryChoices ==
  { [nwk_skey |-> NoKey, app_skey |-> NoKey],
    [nwk_skey |-> GoodKey, app_skey |-> GoodKey],
    [nwk_skey |-> GoodKey, app_skey |-> ShortKey],
    [nwk_skey |-> NonHexKey, app_skey |-> GoodKey],
    [nwk_skey |-> GoodKey, app_skey |-> SeparatedKey] }

\* A scanned uplink, by what the pipeline does with it: whether
\* parse_uplink returns, its FPort (None: no FPort byte), whether
\* lorawan_decrypt_payload returns, what unpack_port29_messages makes of
\* its payload, and whether the decoder returns for it (or for a
\* sub-message).
Frame(parse_ok, fport, decrypt_ok, unpack_ok, messages, dec_ok) ==
  [parse_ok |-> parse_ok, fport |-> fport, decrypt_ok |-> decrypt_ok,
   unpack_ok |-> unpack_ok, messages |-> messages, dec_ok |-> dec_ok]

Frames ==
  { Frame(FALSE, None, TRUE, TRUE, <<>>, TRUE),
    Frame(TRUE, 1, TRUE, TRUE, <<>>, TRUE),
    Frame(TRUE, 1, TRUE, TRUE, <<>>, FALSE),
    Frame(TRUE, 1, FALSE, TRUE, <<>>, TRUE),
    Frame(TRUE, 0, TRUE, TRUE, <<>>, TRUE),
    Frame(TRUE, 29, TRUE, TRUE,
          <<[port |-> 1, dec_ok |-> TRUE, timestamp |-> <<0, 0, 0, 7>>],
            [port |-> 29, dec_ok |-> TRUE, timestamp |-> <<0, 0, 0, 9>>]>>,
          TRUE),
    Frame(TRUE, 29, TRUE, TRUE,
          <<[port |-> 2, dec_ok |-> FALSE, timestamp |-> <<0, 0, 1, 0>>],
            [port |-> 1, dec_ok |-> TRUE, timestamp |-> <<0, 0, 0, 7>>]>>,
          TRUE),
    Frame(TRUE, 29, TRUE, TRUE, <<>>, TRUE),
    Frame(TRUE, 29, TRUE, FALSE, <<>>, TRUE) }

Records == {[devaddr |-> d, frame |-> f] : d \in DevAddrs, f \in Frames}

Batches == UNION {[1..n -> Records] : n \in 1..MaxBatch}

\* scan_logfile: the DevAddrs of the parsed records.
ScannedDevAddrs(parsed) == {parsed[i].devaddr : i \in 1..Len(parsed)}

\* ------------------------------------------------------------- decode progress
\* get_user_id(): the users that can be logged in.
Users == {"alice", "bob"}
\* The progress_id of a request: the form field can be empty.
NoId == ""
ProgressIds == {"p1", "p2"}

\* DECODE_PROGRESS.get(progress_id) of an id that was never written.  An
\* entry is stale when its ts lies more than the TTL back.
NoProgress == [user_id |-> "", completed |-> None, total |-> None,
               done |-> FALSE, stale |-> FALSE]
NoProgressYet == [p \in ProgressIds |-> NoProgress]

\* A faulty set_decode_progress: completed is counted from 1.
set_decode_progress_OffByOne(m, progress_id, user_id, completed, total, done) ==
  IF progress_id = NoId THEN m
  ELSE [m EXCEPT ![progress_id] =
          [user_id |-> user_id, completed |-> completed + 1, total |-> total,
           done |-> done, stale |-> FALSE]]

\* set_decode_progress(progress_id, user_id, completed, total, done): m is
\* DECODE_PROGRESS; nothing is written for an empty progress id.
set_decode_progress(m, progress_id, user_id, completed, total, done) ==
  IF progress_id = NoId THEN m
  ELSE [m EXCEPT ![progress_id] =
          [user_id |-> user_id, completed |-> completed, total |-> total,
           done |-> done, stale |-> FALSE]]

\* A faulty get_decode_progress: the entry's user is not compared.
get_decode_progress_AnyUser(m, progress_id, user_id) ==
  IF progress_id \notin ProgressIds THEN NoProgress ELSE m[progress_id]

\* get_decode_progress(progress_id, user_id): None unless the entry exists
\* and was written for user_id.
get_decode_progress(m, progress_id, user_id) ==
  IF progress_id \notin ProgressIds THEN NoProgress
  ELSE IF m[progress_id] = NoProgress \/ m[progress_id].user_id # user_id
  THEN NoProgress
  ELSE m[progress_id]

NoView == [user_id |-> "", progress_id |-> NoId, answer |-> "none",
           completed |-> None, total |-> None, done |-> FALSE]

\* GET /decode-progress?progress_id=.. by user_id.
DecodeProgressPoll(user_id, progress_id) ==
  LET entry == get_decode_progress(progress, progress_id, user_id) IN
  /\ viewer' =
       IF progress_id = NoId
       THEN [NoView EXCEPT !.user_id = user_id, !.answer = "missing_progress_id"]
       ELSE IF entry = NoProgress
       THEN [NoView EXCEPT !.user_id = user_id, !.progress_id = progress_id,
                           !.answer = "not_found"]
       ELSE [user_id |-> user_id, progress_id |-> progress_id,
             answer |-> "ok", completed |-> entry.completed,
             total |-> entry.total, done |-> entry.done]
  /\ UNCHANGED <<replayVars, decode, progress, call>>

\* More than the TTL passes: every entry now in DECODE_PROGRESS has a ts
\* that lies more than the TTL back.  No statement of the program removes
\* an entry from DECODE_PROGRESS.
ProgressExpire ==
  /\ \E p \in ProgressIds : progress[p] # NoProgress /\ ~progress[p].stale
  /\ progress' = [p \in ProgressIds |->
                   IF progress[p] = NoProgress THEN NoProgress
                   ELSE [progress[p] EXCEPT !.stale = TRUE]]
  /\ UNCHANGED <<replayVars, decode, viewer, call>>

\* ------------------------------------------------------------- decode()
IdleDecode ==
  [pc |-> "idle", parsed |-> <<>>,
   credentials |-> [d \in DevAddrs |-> [nwk_skey |-> NoKey, app_skey |-> NoKey]],
   user_id |-> "", progress_id |-> NoId,
   idx |-> 0, rows |-> <<>>, row_index |-> 0, decrypts |-> 0,
   decoder_calls |-> 0, result |-> "none"]

\* decoded_data of a row: None, the decoder's output for a payload (it is a
\* function of the payload and the port), or {} for a nested container.
NoData == <<"none">>

\* time_unix of a row that is not the row of a sub-message: "".
NoTime == <<>>

DecoderOutput(port) == <<"data", port>>
EmptyData == <<>>

\* A faulty numbering: a row carries the number of its input record.
Row_NumberOfRecord(index, status, record, fport, time_unix, decoded) ==
  [index |-> record, status |-> status, record |-> record, fport |-> fport,
   time_unix |-> time_unix, decoded |-> decoded]

Row(index, status, record, fport, time_unix, decoded) ==
  [index |-> index, status |-> status, record |-> record, fport |-> fport,
   time_unix |-> time_unix, decoded |-> decoded]

\* A faulty except clause: the failure is counted and no row is appended.
ErrorRow_Dropped(st, i, fport) == [st EXCEPT !.row_index = @ + 1]

\* except Exception: row_index += 1 and an Error row is appended.
ErrorRow(st, i, fport) ==
  [st EXCEPT !.row_index = @ + 1,
             !.rows = Append(@, Row(st.row_index + 1, "Error", i, fport,
                                    NoTime, NoData))]

\* A faulty test: the decoder is called for a nested container too.
DecoderInvoked_Always(message_port) == TRUE

\* if message_port == 29: ... else: decoder_func(...).
DecoderInvoked(message_port) == message_port # 29

\* for message in messages: one row per sub-message; the decoder is called
\* unless the sub-message's port is 29, and its failure makes the row an
\* Error row.
RECURSIVE MessageRows(_, _, _, _)
MessageRows(st, messages, k, i) ==
  IF k > Len(messages) THEN st
  ELSE LET m == messages[k]
           called == DecoderInvoked(m.port)
           failed == called /\ ~m.dec_ok
           status == IF failed THEN "Error" ELSE "Decoded"
           decoded == IF failed THEN NoData
                      ELSE IF called THEN DecoderOutput(m.port)
                      ELSE EmptyData
       IN MessageRows(
            [st EXCEPT !.row_index = @ + 1,
                       !.rows = Append(@, Row(st.row_index + 1, status, i,
                                              m.port, m.timestamp, decoded)),
                       !.decoder_calls = IF called THEN @ + 1 ELSE @],
            messages, k + 1, i)

\* The body of the for loop for input record i: st holds rows, row_index
\* and the numbers of decrypt and decoder invocations so far.
DecodeOne(st, rec, credentials, i) ==
  LET f == rec.frame
      keys == credentials[rec.devaddr]
      fport == IF f.parse_ok THEN f.fport ELSE None
  IN
  IF ~f.parse_ok THEN ErrorRow(st, i, None)
  ELSE IF ~hex_to_bytes_ok(keys.nwk_skey) \/ ~hex_to_bytes_ok(keys.app_skey)
  THEN ErrorRow(st, i, fport)
  ELSE LET s1 == [st EXCEPT !.decrypts = @ + 1] IN
       IF ~f.decrypt_ok THEN ErrorRow(s1, i, fport)
       ELSE IF f.fport = 29
       THEN IF ~f.unpack_ok \/ f.messages = <<>>
            THEN ErrorRow(s1, i, fport)
            ELSE MessageRows(s1, f.messages, 1, i)
       ELSE \* row_index += 1 precedes the decoder call
            LET s2 == [s1 EXCEPT !.row_index = @ + 1,
                                 !.decoder_calls = @ + 1]
            IN IF f.dec_ok
               THEN [s2 EXCEPT !.rows = Append(@, Row(s2.row_index, "Decoded",
                                                      i, fport, NoTime,
                                                      DecoderOutput(fport)))]
               ELSE ErrorRow(s2, i, fport)

\* POST /decode with action=decode: the rate limit, the missing-keys gate
\* and load_decoder come before the loop.
\* (The scanned batch and the credential store are those of the state.)
DecodeRequest(user_id, progress_id, allowed, decoder_loads) ==
  LET parsed == decode.parsed
      credentials == decode.credentials
      missing_keys == get_missing_keys(ScannedDevAddrs(parsed), credentials)
      refused == [IdleDecode EXCEPT
                    !.parsed = parsed, !.credentials = credentials,
                    !.user_id = user_id, !.progress_id = progress_id]
      starts == allowed /\ missing_keys = {} /\ decoder_loads
  IN
  /\ decode.pc = "idle"
  /\ decode' =
       IF ~allowed THEN [refused EXCEPT !.result = "rate_limited"]
       ELSE IF missing_keys # {} THEN [refused EXCEPT !.result = "missing_keys"]
       ELSE IF ~decoder_loads THEN [refused EXCEPT !.result = "decoder_error"]
       ELSE [refused EXCEPT !.pc = "loop"]
  /\ progress' =
       IF starts
       THEN set_decode_progress(progress, progress_id, user_id,
                                0, Len(parsed), FALSE)
       ELSE set_decode_progress(progress, progress_id, user_id, 0, 0, TRUE)
  /\ UNCHANGED <<replayVars, viewer, call>>

\* The failure of a record is caught (except, finally) and the for loop
\* goes on: the number of records that are behind the loop after record i.
RecordsDone_LoopEndsOnFailure(st, i, total) ==
  IF st.rows # <<>> /\ st.rows[Len(st.rows)].status = "Error"
  THEN total ELSE i

RecordsDone(st, i, total) == i

\* One iteration of the loop, with its finally clause.
DecodeRecord ==
  LET i == decode.idx + 1
      total_items == Len(decode.parsed)
      st == DecodeOne(decode, decode.parsed[i], decode.credentials, i)
  IN
  /\ decode.pc = "loop"
  /\ decode.idx < total_items
  /\ decode' = [st EXCEPT !.idx = RecordsDone(st, i, total_items)]
  /\ progress' = set_decode_progress(progress, decode.progress_id,
                                     decode.user_id, i, total_items, FALSE)
  /\ UNCHANGED <<replayVars, viewer, call>>

\* The decoder is called for the record: it is parsed, its keys are read,
\* it is decrypted, and it is no container or one with a sub-message whose
\* port is not 29.
DecoderCalled(rec, credentials) ==
  LET f == rec.frame
      keys == credentials[rec.devaddr]
  IN /\ f.parse_ok
     /\ hex_to_bytes_ok(keys.nwk_skey) /\ hex_to_bytes_ok(keys.app_skey)
     /\ f.decrypt_ok
     /\ \/ f.fport # 29
        \/ /\ f.unpack_ok
           /\ \E k \in 1..Len(f.messages) : f.messages[k].port # 29

\* One iteration of the loop in which the decoder's node process does not
\* end: subprocess.run has no timeout and does not return.
DecodeBlocked ==
  LET i == decode.idx + 1 IN
  /\ decode.pc = "loop"
  /\ decode.idx < Len(decode.parsed)
  /\ DecoderCalled(decode.parsed[i], decode.credentials)
  /\ decode' = [decode EXCEPT !.pc = "decoder", !.decrypts = @ + 1]
  /\ UNCHANGED <<replayVars, progress, viewer, call>>

\* After the loop: the rows are stored and the progress is marked done.
DecodeFinish ==
  LET total_items == Len(decode.parsed) IN
  /\ decode.pc = "loop"
  /\ decode.idx = total_items
  /\ decode' = [decode EXCEPT !.pc = "idle", !.result = "complete"]
  /\ progress' = set_decode_progress(progress, decode.progress_id,
                                     decode.user_id, total_items,
                                     total_items, TRUE)
  /\ UNCHANGED <<replayVars, viewer, call>>

\* ------------------------------------------------------------- Init
NoWorker == [pc |-> "none", idx |-> 0, sent |-> 0, errors |-> 0,
             delay_ms |-> 0, status |-> "none"]
ExitedWorker == [NoWorker EXCEPT !.pc = "exit"]
IdleStopper == [pc |-> "idle", token |-> 0]
\* answer: the token the last resume request redirected to (0: the page
\* without a job, the request was refused; None: no request yet), for the
\* token it asked for.
IdleResumer == [pc |-> "idle", token |-> 0, start_index |-> 0, sent |-> 0,
                errors |-> 0, asked |-> 0, answer |-> None]
NoPoll == [token |-> 0, received |-> 0, lines |-> <<>>, status |-> "none",
           sent |-> 0, errors |-> 0, done |-> FALSE, not_found |-> 0]

InitReplayVars ==
  /\ cache = [t \in Tokens |-> NoEntry]
  /\ worker = [t \in Tokens |-> NoWorker]
  /\ stopper = [s \in Stoppers |-> IdleStopper]
  /\ resumer = IdleResumer
  /\ poller = NoPoll
  /\ parent = [t \in Tokens |-> 0]

\* No pure function has been applied.
NoCall == [op |-> "none", arg |-> <<>>, done |-> FALSE, result |-> <<>>]

\* The function op is about to be applied to arg.
Pending(op, arg) == [op |-> op, arg |-> arg, done |-> FALSE, result |-> <<>>]

InitOther == progress = NoProgressYet /\ viewer = NoView /\ call = NoCall

InitReplay == InitReplayVars /\ decode = IdleDecode /\ InitOther

\* secrets.token_urlsafe(16): a token never issued before.
FreshToken(t) ==
  /\ cache[t].where = "unused"
  /\ \A u \in Tokens : u < t => cache[u].where # "unused"

\* ------------------------------------------------------------- run_replay_job
\* A faulty loop test: the status is not looked at.
LoopContinues_IgnoringStatus(c, t) == InCache(c, t)

\* A faulty enumerate: the first iteration repeats the last index done.
LoopStart_OffByOne(start_index) == IF start_index = 0 THEN 1 ELSE start_index - 1

\* The test at the top of an iteration: the job is still in the map and its
\* status is still running.
LoopContinues(c, t) == InCache(c, t) /\ c[t].status = "running"

\* enumerate(parsed[start_index:], start=start_index + 1): the worker's idx
\* before its first iteration, and the idx of the iteration after idx.
LoopStart(start_index) == start_index

NextIndex(idx) == idx + 1

\* Top of the for loop: the records are exhausted, or the job is looked up
\* and the loop breaks unless its status is still running.
WorkerCheck(t) ==
  /\ worker[t].pc = "check"
  /\ IF worker[t].idx >= NumRecords
     THEN /\ worker' = [worker EXCEPT ![t].pc = "fin_read", ![t].idx = 0]
          /\ UNCHANGED cache
     ELSE LET c1 == get_replay_job(cache) IN
          /\ cache' = c1
          /\ IF LoopContinues(c1, t)
             THEN worker' = [worker EXCEPT ![t].pc = "send",
                                           ![t].idx = NextIndex(@)]
             ELSE worker' = [worker EXCEPT ![t].pc = "fin_read",
                                           ![t].idx = 0]
  /\ UNCHANGED <<stopper, resumer, poller, parent, otherVars>>

\* A faulty sleep test: the worker also sleeps after the last record.
SleepsAfter_AfterLast(send_attempted, delay_ms, idx, total) ==
  send_attempted /\ delay_ms > 0

\* Whether the worker sleeps after record idx.
SleepsAfter(send_attempted, delay_ms, idx, total) ==
  send_attempted /\ delay_ms > 0 /\ idx < total

\* The counters and the line of one record, by what happened to it:
\* build_push_data raised, sendto raised, or the packet went out.
Outcomes == {"Sent", "SendError", "BuildError"}

SentAfter(outcome, sent) == IF outcome = "Sent" THEN sent + 1 ELSE sent

\* A faulty except clause: the failure is not counted.
ErrorsAfter_Unchanged(outcome, errors) == errors

ErrorsAfter(outcome, errors) == IF outcome = "Sent" THEN errors ELSE errors + 1

LineFor(outcome, idx) ==
  IF outcome = "Sent" THEN SentLine(idx) ELSE ErrorLine(idx)

\* Build the packet, send it, and log the record: the local counter is
\* advanced and the line is appended together with both counters.
WorkerSend(t, outcome) ==
  LET w == worker[t]
      sent == SentAfter(outcome, w.sent)
      errors == ErrorsAfter(outcome, w.errors)
  IN
  /\ w.pc = "send"
  /\ cache' = append_replay_log(cache, t, LineFor(outcome, w.idx), sent, errors)
  /\ worker' = [worker EXCEPT
       ![t].sent = sent,
       ![t].errors = errors,
       ![t].pc = IF SleepsAfter(outcome # "BuildError", w.delay_ms, w.idx,
                                NumRecords)
                 THEN "sleep" ELSE "update"]
  /\ UNCHANGED <<stopper, resumer, poller, parent, otherVars>>

\* time.sleep(delay_ms / 1000.0) returns.
WorkerWake(t) ==
  /\ worker[t].pc = "sleep"
  /\ worker' = [worker EXCEPT ![t].pc = "update"]
  /\ UNCHANGED <<cache, stopper, resumer, poller, parent, otherVars>>

\* update_replay_job(token, current_index=idx, sent=sent, errors=errors),
\* the last statement of an iteration.
WorkerUpdate(t) ==
  /\ worker[t].pc = "update"
  /\ cache' = update_progress(cache, t, worker[t].idx, worker[t].sent,
                              worker[t].errors)
  /\ worker' = [worker EXCEPT ![t].pc = "check"]
  /\ UNCHANGED <<stopper, resumer, poller, parent, otherVars>>

\* A faulty finally block: the status read is written back as it is.
FinalStatus_Unchanged(c, t) ==
  IF ~InCache(c, t) THEN "done" ELSE c[t].status

\* The status the finally block decides on from what it read.
FinalStatus(c, t) ==
  IF ~InCache(c, t) THEN "done"
  ELSE IF c[t].status = "running" THEN "done" ELSE c[t].status

\* finally: look the job up and read its status.
WorkerFinRead(t) ==
  LET c1 == get_replay_job(cache) IN
  /\ worker[t].pc = "fin_read"
  /\ cache' = c1
  /\ worker' = [worker EXCEPT ![t].pc = "fin_write",
                              ![t].status = FinalStatus(c1, t)]
  /\ UNCHANGED <<stopper, resumer, poller, parent, otherVars>>

\* finally: update_replay_job(token, status=status, sent=sent, errors=errors);
\* the thread ends.
WorkerFinWrite(t) ==
  /\ worker[t].pc = "fin_write"
  /\ cache' = update_final(cache, t, worker[t].status, worker[t].sent,
                           worker[t].errors)
  /\ worker' = [worker EXCEPT ![t] = ExitedWorker]
  /\ UNCHANGED <<stopper, resumer, poller, parent, otherVars>>

\* ------------------------------------------------------------- replay (POST)
\* replay(): a valid start request stores a job at start_index 0 and starts
\* its worker with (start_index, sent, errors) = (0, 0, 0).
Start(t, delay_ms) ==
  /\ FreshToken(t)
  /\ Cardinality({u \in Tokens : cache[u].where # "unused" /\ parent[u] = 0})
       < MaxStarts
  /\ NumRecords > 0
  /\ cache' = store_replay_job(cache, t, NumRecords, delay_ms, 0, 0, 0, <<>>)
  /\ worker' = [worker EXCEPT ![t] =
                  [pc |-> "check", idx |-> LoopStart(0), sent |-> 0, errors |-> 0,
                   delay_ms |-> delay_ms, status |-> "none"]]
  /\ UNCHANGED <<stopper, resumer, poller, parent, otherVars>>

\* ------------------------------------------------------------- replay_stop
\* The handler's test: the job exists and its status is running.
StopApplies(c, t) == InCache(c, t) /\ c[t].status = "running"

\* (Request threads are interchangeable: a request is served by the first
\* idle one.)
StopCheck(s, t) ==
  LET c1 == get_replay_job(cache) IN
  /\ stopper[s].pc = "idle"
  /\ \A r \in Stoppers : r < s => stopper[r].pc # "idle"
  /\ cache' = c1
  /\ stopper' = IF StopApplies(c1, t)
                THEN [stopper EXCEPT ![s] = [pc |-> "append", token |-> t]]
                ELSE stopper
  /\ UNCHANGED <<worker, resumer, poller, parent, otherVars>>

\* append_replay_log(token, {... "status": "Stopped" ...})
StopAppend(s) ==
  /\ stopper[s].pc = "append"
  /\ cache' = append_replay_log(cache, stopper[s].token, StoppedLine, None, None)
  /\ stopper' = [stopper EXCEPT ![s].pc = "flip"]
  /\ UNCHANGED <<worker, resumer, poller, parent, otherVars>>

\* update_replay_job(token, status="stopped")
StopFlip(s) ==
  /\ stopper[s].pc = "flip"
  /\ cache' = update_status(cache, stopper[s].token, "stopped")
  /\ stopper' = [stopper EXCEPT ![s] = IdleStopper]
  /\ UNCHANGED <<worker, resumer, poller, parent, otherVars>>

\* ------------------------------------------------------------- replay_resume
\* A faulty test: any job in the map is resumed.
ResumeApplies_AnyStatus(c, t) == InCache(c, t)

\* The handler's test: the job exists and its status is stopped.
ResumeApplies(c, t) == InCache(c, t) /\ c[t].status = "stopped"

\* entry = get_replay_job(token); the request goes on only from stopped and
\* only while the scan is still cached.  (A token is left for the new job.)
ResumeCheck(t, scan_cached) ==
  LET c1 == get_replay_job(cache) IN
  /\ resumer.pc = "idle"
  /\ \E u \in Tokens : cache[u].where = "unused"
  /\ cache' = c1
  /\ resumer' = IF ResumeApplies(c1, t) /\ scan_cached
                THEN [IdleResumer EXCEPT !.pc = "read_index", !.token = t,
                                         !.asked = t]
                ELSE [IdleResumer EXCEPT !.asked = t, !.answer = 0]
  /\ UNCHANGED <<worker, stopper, poller, parent, otherVars>>

Min(a, b) == IF a <= b THEN a ELSE b

\* start_index = min(int(entry.get("current_index", 0)), len(parsed))
ResumeStartIndex(entry) == Min(entry.current_index, NumRecords)

ResumeReadIndex ==
  /\ resumer.pc = "read_index"
  /\ resumer' = [resumer EXCEPT
       !.pc = "read_sent",
       !.start_index = ResumeStartIndex(cache[resumer.token])]
  /\ UNCHANGED <<cache, worker, stopper, poller, parent, otherVars>>

\* sent = int(entry.get("sent", 0))
ResumeReadSent ==
  /\ resumer.pc = "read_sent"
  /\ resumer' = [resumer EXCEPT !.pc = "read_errors",
                                !.sent = cache[resumer.token].sent]
  /\ UNCHANGED <<cache, worker, stopper, poller, parent, otherVars>>

\* errors = int(entry.get("errors", 0))
ResumeReadErrors ==
  /\ resumer.pc = "read_errors"
  /\ resumer' = [resumer EXCEPT !.pc = "store",
                                !.errors = cache[resumer.token].errors]
  /\ UNCHANGED <<cache, worker, stopper, poller, parent, otherVars>>

\* log_lines = list(entry.get("log_lines", [])); store_replay_job(...) under
\* a new token; the new worker thread is started with the values read.
ResumeStore(t) ==
  LET old == cache[resumer.token] IN
  /\ resumer.pc = "store"
  /\ FreshToken(t)
  /\ cache' = store_replay_job(cache, t, NumRecords, old.delay_ms,
                               resumer.start_index, resumer.sent,
                               resumer.errors, old.log_lines)
  /\ worker' = [worker EXCEPT ![t] =
       [pc |-> "check", idx |-> LoopStart(resumer.start_index),
        sent |-> resumer.sent,
        errors |-> resumer.errors, delay_ms |-> old.delay_ms,
        status |-> "none"]]
  /\ parent' = [parent EXCEPT ![t] = resumer.token]
  /\ resumer' = [IdleResumer EXCEPT !.asked = resumer.token, !.answer = t]
  /\ UNCHANGED <<stopper, poller, otherVars>>

\* ------------------------------------------------------------- replay_status
\* A faulty snapshot: since is ignored and the whole log is returned.
StatusPayload_WholeLog(entry, since) ==
  [status |-> entry.status, total |-> entry.total, sent |-> entry.sent,
   errors |-> entry.errors, delay_ms |-> entry.delay_ms,
   lines |-> entry.log_lines,
   count |-> Len(entry.log_lines)]

\* The snapshot replay_status takes under REPLAY_LOCK.
StatusPayload(entry, since) ==
  [status |-> entry.status, total |-> entry.total, sent |-> entry.sent,
   errors |-> entry.errors, delay_ms |-> entry.delay_ms,
   lines |-> SubSeq(entry.log_lines, since + 1, Len(entry.log_lines)),
   count |-> Len(entry.log_lines)]

\* Most not_found answers one page is followed through.
MaxNotFound == 2

\* The page of a replay token is loaded: poll() starts with received = 0.
PollOpen(t) ==
  /\ cache[t].where # "unused"
  /\ poller.token # t
  /\ poller' = [NoPoll EXCEPT !.token = t]
  /\ UNCHANGED <<cache, worker, stopper, resumer, parent, otherVars>>

\* One round of poll(): GET /replay/status?token=..&since=received; the
\* lines are appended, received becomes count, and polling ends on done or
\* stopped.  A 404 leaves received and done as they were: the catch clause
\* schedules the next poll() (not_found counts these answers).
Poll ==
  LET c1 == get_replay_job(cache)
      t == poller.token
      data == StatusPayload(c1[t], poller.received)
  IN
  /\ poller.token # 0
  /\ ~poller.done
  /\ poller.not_found < MaxNotFound
  /\ cache' = c1
  /\ poller' = IF ~InCache(c1, t)
               THEN [poller EXCEPT !.not_found = @ + 1]
               ELSE [poller EXCEPT
                       !.lines = @ \o data.lines,
                       !.received = data.count,
                       !.status = data.status,
                       !.sent = data.sent,
                       !.errors = data.errors,
                       !.done = data.status \in {"done", "stopped"}]
  /\ UNCHANGED <<worker, stopper, resumer, parent, otherVars>>

\* ------------------------------------------------------------- time
\* REPLAY_CACHE_TTL seconds pass without an update of the entry: its worker
\* has ended, or is asleep for longer than the TTL.
CanExpire(t) ==
  \/ worker[t].pc = "exit"
  \/ worker[t].pc = "sleep" /\ worker[t].delay_ms > REPLAY_CACHE_TTL * 1000

Expire(t) ==
  /\ InCache(cache, t)
  /\ ~cache[t].stale
  /\ CanExpire(t)
  /\ cache' = [cache EXCEPT ![t].stale = TRUE]
  /\ UNCHANGED <<worker, stopper, resumer, poller, parent, otherVars>>

\* ------------------------------------------------------------- bytes
\* A byte string is a sequence of numbers 0..255; positions are counted
\* from 0 as in the code.
\* s[i]: IndexError when i is not a position of s.
IndexError == -2

At(s, i) == IF i >= 0 /\ i < Len(s) THEN s[i + 1] ELSE IndexError

\* s[a:b] for 0 <= a: a slice is cut at the end of s.
PySlice(s, a, b) == SubSeq(s, a + 1, Min(b, Len(s)))

\* ------------------------------------------------------------- parse_uplink
\* Longest PHYPayload that is parsed.
MaxPhyLen == 30

\* A faulty length test: no PHYPayload is too short.
PhyTooShort_Never(phy) == FALSE

\* len(phy) < 12
PhyTooShort(phy) == Len(phy) < 12

\* A faulty FHDR length: the FOpts are not counted.
FhdrLen_WithoutFOpts(fctrl) == 7

\* fhdr_len = 7 + (fctrl & 0x0F)
FhdrLen(fctrl) == 7 + (fctrl % 16)

ParseError(message) ==
  [ok |-> FALSE, error |-> message, mhdr |-> None, mtype |-> None,
   devaddr_le |-> <<>>, fctrl |-> None, fcnt |-> None, fopts |-> <<>>,
   fport |-> None, frm_payload |-> <<>>]

\* parse_uplink(rxpk), from the decoded PHYPayload on.
parse_uplink(phy) ==
  IF PhyTooShort(phy) THEN ParseError("PHYPayload too short.")
  ELSE
  LET mhdr == At(phy, 0)
      mtype == (mhdr \div 32) % 8
      mac_payload == PySlice(phy, 1, Len(phy) - 4)
      fctrl == At(mac_payload, 4)
      fcnt == At(mac_payload, 5) + 256 * At(mac_payload, 6)
      fhdr_len == FhdrLen(fctrl)
      remaining == PySlice(mac_payload, fhdr_len, Len(mac_payload))
  IN
  IF mhdr = IndexError THEN ParseError("IndexError")
  ELSE IF mtype \notin {2, 4}
  THEN ParseError("PHYPayload is not an uplink data frame.")
  ELSE IF Len(mac_payload) < 7 THEN ParseError("MACPayload too short.")
  ELSE IF fctrl = IndexError THEN ParseError("IndexError")
  ELSE IF Len(mac_payload) < fhdr_len THEN ParseError("FHDR length mismatch.")
  ELSE [ok |-> TRUE, error |-> "", mhdr |-> mhdr, mtype |-> mtype,
        devaddr_le |-> PySlice(mac_payload, 0, 4), fctrl |-> fctrl,
        fcnt |-> fcnt, fopts |-> PySlice(mac_payload, 7, fhdr_len),
        fport |-> IF remaining # <<>> THEN At(remaining, 0) ELSE None,
        frm_payload |-> IF remaining # <<>>
                        THEN PySlice(remaining, 1, Len(remaining))
                        ELSE <<>>]

\* PHYPayloads by their length, MHDR and FCtrl; the other bytes are fixed.
PhyOf(len, mhdr, fctrl) ==
  [i \in 1..len |-> IF i = 1 THEN mhdr
                    ELSE IF i = 6 THEN fctrl
                    ELSE (7 * i) % 256]
MhdrChoices == {32 * mtype + low : mtype \in 0..7, low \in {0, 3}}
FctrlChoices == 0..15 \cup {128, 133, 143, 240}
PhyPayloads ==
  {PhyOf(len, mhdr, fctrl) :
     len \in 0..MaxPhyLen, mhdr \in MhdrChoices, fctrl \in FctrlChoices}

InitParse ==
  /\ InitReplayVars /\ decode = IdleDecode
  /\ progress = NoProgressYet /\ viewer = NoView
  /\ \E phy \in PhyPayloads : call = Pending("parse_uplink", phy)

ParseCall ==
  /\ call.op = "parse_uplink" /\ ~call.done
  /\ call' = [call EXCEPT !.done = TRUE, !.result = parse_uplink(call.arg)]
  /\ UNCHANGED <<replayVars, decode, progress, viewer>>

\* ------------------------------------------------------------- unpack_port29_messages
\* Most sub-messages in one container.
MaxMessages == 2

RECURSIVE Concat(_)
Concat(ss) == IF ss = <<>> THEN <<>> ELSE Head(ss) \o Concat(Tail(ss))

\* A 32-bit number is written by its four base-256 digits, most significant
\* first: its value is above the numbers the checker computes with.
U32(b3, b2, b1, b0) == <<b3, b2, b1, b0>>

\* A 32-bit number as four bytes, least significant first.
LE4(n) == <<n[4], n[3], n[2], n[1]>>

\* The layout the unpacker walks: port, one reserved byte, the length of
\* the message, the message, and a little-endian 32-bit timestamp.
SerialiseMessage(m) ==
  <<m.port, 0, Len(m.payload)>> \o m.payload \o LE4(m.timestamp)

Serialise(msgs) == Concat([k \in 1..Len(msgs) |-> SerialiseMessage(msgs[k])])

UnpackError(message) == [ok |-> FALSE, error |-> message, messages |-> <<>>]

\* The body of the while loop, from position i with the messages so far.
RECURSIVE UnpackFrom(_, _, _)
UnpackFrom(payload, i, messages) ==
  LET msg_len == Len(payload)
      port == At(payload, i)
      length == At(payload, i + 2)
      end == i + length + 3
      msg == PySlice(payload, i + 1, end)
      timestamp ==
        U32(At(payload, end + 3), At(payload, end + 2),
            At(payload, end + 1), At(payload, end))
  IN
  IF ~(i < msg_len - 7)
  THEN [ok |-> TRUE, error |-> "", messages |-> messages]
  ELSE IF i + 3 > msg_len
  THEN UnpackError("Port 29 message header incomplete.")
  ELSE IF end > msg_len
  THEN UnpackError("Port 29 message length exceeds payload.")
  ELSE IF end + 4 > msg_len
  THEN UnpackError("Port 29 timestamp missing.")
  ELSE UnpackFrom(payload, end + 4,
                  Append(messages, [port |-> port, payload |-> msg,
                                    timestamp |-> timestamp]))

unpack_port29_messages(payload) ==
  IF payload = <<>>
  THEN [ok |-> TRUE, error |-> "", messages |-> <<>>]
  ELSE UnpackFrom(payload, 0, <<>>)

\* Sub-messages of known port, payload and timestamp.
SubMessages ==
  [port : {1, 29}, payload : {<<>>, <<5>>, <<5, 6>>},
   timestamp : {U32(0, 0, 0, 0), U32(1, 2, 3, 4), U32(255, 255, 255, 255)}]

SubMessageLists ==
  UNION {[1..n -> SubMessages] : n \in 0..MaxMessages}

\* What follows the last whole sub-message: nothing, a cut header, a header
\* declaring 9 bytes with none left, a message without its timestamp, and a
\* header declaring 200 bytes with 5 left.
Tails == {<<>>, <<1>>, <<1, 0, 9>>, <<1, 0, 1, 7>>, <<1, 0, 200, 1, 2, 3, 4, 5>>}

InitUnpack ==
  /\ InitReplayVars /\ decode = IdleDecode
  /\ progress = NoProgressYet /\ viewer = NoView
  /\ \E msgs \in SubMessageLists, tail \in Tails :
       call = Pending("unpack_port29_messages", [msgs |-> msgs, tail |-> tail])

UnpackCall ==
  /\ call.op = "unpack_port29_messages" /\ ~call.done
  /\ call' = [call EXCEPT
       !.done = TRUE,
       !.result = unpack_port29_messages(Serialise(call.arg.msgs)
                                           \o call.arg.tail)]
  /\ UNCHANGED <<replayVars, decode, progress, viewer>>

\* ------------------------------------------------------------- FRMPayload encryption
\* The largest value of one byte: the block counter of an A block is one.
ByteMax == 255

\* A faulty combination of two bytes: their sum.
Xor_Sum(a, b) == (a + b) % 256

\* b ^ s on two bytes.
RECURSIVE Xor(_, _)
Xor(a, b) ==
  IF a = 0 THEN b
  ELSE IF b = 0 THEN a
  ELSE ((a + b) % 2) + 2 * Xor(a \div 2, b \div 2)

RECURSIVE WeightedTo(_, _)
WeightedTo(s, n) == IF n = 0 THEN 0 ELSE n * s[n] + WeightedTo(s, n - 1)

\* AES-128 in ECB mode on one 16-byte block, as an unspecified function of
\* the key and the block: equal inputs give equal outputs, and a change of
\* one byte of the block changes every byte of the output.
AesBlock(key, block) ==
  LET h == WeightedTo(key, Len(key)) * 31 + WeightedTo(block, Len(block))
  IN [j \in 1..16 |-> (h * (2 * j + 1) + j * j) % 256]

\* NWK_SKEY_HEX and APP_SKEY_HEX as bytes.
NwkSKey == [i \in 1..KeyBytes |-> i - 1]
AppSKey == [i \in 1..KeyBytes |-> (KeyBytes - i) * 16]

\* devaddr_be_to_le of the two device addresses.
DevAddrsLE == {<<218, 27, 1, 38>>, <<60, 95, 11, 38>>}

\* The A block of encrypt_frm_payload for block_index = 1, 2, ...
EncABlock(direction, devaddr_le, fcnt, block_index) ==
  <<1, 0, 0, 0, 0, direction % 256>> \o devaddr_le
    \o <<fcnt % 256, (fcnt \div 256) % 256, (fcnt \div 65536) % 256,
         (fcnt \div 16777216) % 256, 0, block_index % 256>>

encrypt_frm_payload(skey, devaddr_le, fcnt, direction, payload) ==
  IF payload = <<>> THEN <<>>
  ELSE
  LET num_blocks == (Len(payload) + 15) \div 16
      s == [block_index \in 1..num_blocks |->
              AesBlock(skey, EncABlock(direction, devaddr_le, fcnt,
                                       block_index))]
  IN [k \in 1..Len(payload) |->
        Xor(payload[k], s[((k - 1) \div 16) + 1][((k - 1) % 16) + 1])]

\* The first four bytes of AES-CMAC over B0 | msg, as an unspecified
\* function of the key, of B0 and of the length of msg.
compute_mic(nwk_skey, devaddr_le, fcnt, direction, msg) ==
  LET b0 == <<73, 0, 0, 0, 0, direction % 256>> \o devaddr_le
              \o <<fcnt % 256, (fcnt \div 256) % 256, (fcnt \div 65536) % 256,
                   (fcnt \div 16777216) % 256, 0, Len(msg) % 256>>
      h == WeightedTo(nwk_skey, Len(nwk_skey)) * 31 + WeightedTo(b0, 16)
  IN [j \in 1..4 |-> (h * (2 * j + 1) + Len(msg)) % 256]

\* build_abp_uplink: s_key = nwk_skey if fport == 0 else app_skey
GeneratorKey(fport, nwk_skey, app_skey) ==
  IF fport = 0 THEN nwk_skey ELSE app_skey

build_abp_uplink(devaddr_le, nwk_skey, app_skey, fcnt, app_payload, fport, confirmed) ==
  LET mhdr == <<IF confirmed THEN 128 ELSE 64>>
      fcnt16 == fcnt % 65536
      fhdr == devaddr_le \o <<0, fcnt16 % 256, (fcnt16 \div 256) % 256>>
      s_key == GeneratorKey(fport, nwk_skey, app_skey)
      enc_frmpayload ==
        encrypt_frm_payload(s_key, devaddr_le, fcnt, 0, app_payload)
      mac_payload == fhdr \o <<fport % 256>> \o enc_frmpayload
      mic == compute_mic(nwk_skey, devaddr_le, fcnt, 0, mhdr \o mac_payload)
  IN mhdr \o mac_payload \o mic

\* A faulty A block: the blocks are counted from 0.
DecABlock_CounterFromZero(direction, devaddr_le, fcnt, i) ==
  <<1, 0, 0, 0, 0, direction % 2>> \o devaddr_le
    \o <<fcnt % 256, (fcnt \div 256) % 256, (fcnt \div 65536) % 256,
         (fcnt \div 16777216) % 256, 0, i>>

\* The A block of lorawan_decrypt_payload for i = 0, 1, ...
DecABlock(direction, devaddr_le, fcnt, i) ==
  <<1, 0, 0, 0, 0, direction % 2>> \o devaddr_le
    \o <<fcnt % 256, (fcnt \div 256) % 256, (fcnt \div 65536) % 256,
         (fcnt \div 16777216) % 256, 0, i + 1>>

\* fcnt.to_bytes(4, "little") raises OverflowError on a negative number;
\* a_block[15] = i + 1 raises ValueError once i + 1 is not a byte.
lorawan_decrypt_payload(key, devaddr_le, fcnt, payload, direction) ==
  IF payload = <<>> THEN [ok |-> TRUE, error |-> "", bytes |-> <<>>]
  ELSE
  LET block_count == (Len(payload) + 15) \div 16
      s == [b \in 1..block_count |->
              AesBlock(key, DecABlock(direction, devaddr_le, fcnt, b - 1))]
  IN IF fcnt < 0
     THEN [ok |-> FALSE, error |-> "OverflowError", bytes |-> <<>>]
     ELSE IF block_count > ByteMax
     THEN [ok |-> FALSE, error |-> "ValueError", bytes |-> <<>>]
     ELSE [ok |-> TRUE, error |-> "",
           bytes |-> [k \in 1..Len(payload) |->
                        Xor(payload[k],
                            s[((k - 1) \div 16) + 1][((k - 1) % 16) + 1])]]

\* An application payload of n bytes.
AppPayload(n) == [k \in 1..n |-> (k * 37 + 11) % 256]

\* Payloads around the block size, and the longest payload whose blocks a
\* byte can count with the first that is longer.
ShortLens == {0, 1, 15, 16, 17, 32, 33}
LongLens == {16 * ByteMax, 16 * ByteMax + 1}
FcntChoices == {0, 1, 65535, 65536, 2147483647}

Uplink(devaddr_le, fcnt, n, fport, confirmed) ==
  [devaddr_le |-> devaddr_le, nwk_skey |-> NwkSKey, app_skey |-> AppSKey,
   fcnt |-> fcnt, app_payload |-> AppPayload(n), fport |-> fport,
   confirmed |-> confirmed]

UplinkChoices ==
  {Uplink(d, f, n, p, c) :
     d \in DevAddrsLE, f \in FcntChoices, n \in ShortLens, p \in {0, 1},
     c \in BOOLEAN}
  \cup {Uplink(<<218, 27, 1, 38>>, 65536, n, 1, FALSE) : n \in LongLens}

InitCrypt ==
  /\ InitReplayVars /\ decode = IdleDecode
  /\ progress = NoProgressYet /\ viewer = NoView
  /\ \E u \in UplinkChoices : call = Pending("round_trip", u)

\* The uplink is built, parsed, and its FRMPayload decrypted with the key
\* of its FPort, its DevAddr and its frame counter, as an uplink.
CryptCall ==
  /\ call.op = "round_trip" /\ ~call.done
  /\ LET u == call.arg
         phy == build_abp_uplink(u.devaddr_le, u.nwk_skey, u.app_skey, u.fcnt,
                                 u.app_payload, u.fport, u.confirmed)
         uplink == parse_uplink(phy)
         key == IF u.fport = 0 THEN u.nwk_skey ELSE u.app_skey
     IN call' = [call EXCEPT
          !.done = TRUE,
          !.result = [uplink |-> uplink,
                      decrypted |->
                        lorawan_decrypt_payload(key, u.devaddr_le, u.fcnt,
                                                uplink.frm_payload, 0)]]
  /\ UNCHANGED <<replayVars, decode, progress, viewer>>

\* A payload, a key, a DevAddr, a frame counter and a direction.
DecryptChoices ==
  [key : {NwkSKey, AppSKey}, devaddr_le : DevAddrsLE, fcnt : FcntChoices,
   payload : {AppPayload(n) : n \in ShortLens}, direction : {0, 1}]

InitTwice ==
  /\ InitReplayVars /\ decode = IdleDecode
  /\ progress = NoProgressYet /\ viewer = NoView
  /\ \E x \in DecryptChoices : call = Pending("decrypt_twice", x)

\* lorawan_decrypt_payload applied to a payload, and again to its output.
TwiceCall ==
  /\ call.op = "decrypt_twice" /\ ~call.done
  /\ LET x == call.arg
         once == lorawan_decrypt_payload(x.key, x.devaddr_le, x.fcnt,
                                         x.payload, x.direction)
     IN call' = [call EXCEPT
          !.done = TRUE,
          !.result = [once |-> once,
                      twice |-> lorawan_decrypt_payload(
                                  x.key, x.devaddr_le, x.fcnt, once.bytes,
                                  x.direction)]]
  /\ UNCHANGED <<replayVars, decode, progress, viewer>>

\* ------------------------------------------------------------- the key of an FPort
\* The values of an FPort byte.
FPorts == 0..ByteMax

\* A faulty choice: AppSKey for every frame.
DecodeKey_AlwaysApp(fport, nwk_skey, app_skey) == app_skey

\* decode: key = app_skey if uplink["fport"] not in (0, None) else nwk_skey
DecodeKey(fport, nwk_skey, app_skey) ==
  IF fport \notin {0, None} THEN app_skey ELSE nwk_skey

\* A data frame without FPort and FRMPayload: MHDR, FHDR and MIC.
BareUplink(devaddr_le, nwk_skey, fcnt) ==
  LET mhdr == <<64>>
      fhdr == devaddr_le \o <<0, fcnt % 256, (fcnt \div 256) % 256>>
  IN mhdr \o fhdr \o compute_mic(nwk_skey, devaddr_le, fcnt, 0, mhdr \o fhdr)

\* Frames of the generator for every FPort, and a frame without FPort.
KeyChoices ==
  {[generated |-> TRUE, fport |-> p, fcnt |-> f, app_payload |-> AppPayload(n)] :
     p \in FPorts, f \in {0, 65535}, n \in {1, 17}}
  \cup {[generated |-> FALSE, fport |-> None, fcnt |-> f, app_payload |-> <<>>] :
          f \in {0, 65535}}

InitKey ==
  /\ InitReplayVars /\ decode = IdleDecode
  /\ progress = NoProgressYet /\ viewer = NoView
  /\ \E x \in KeyChoices : call = Pending("decode_key", x)

\* The frame is built, and decode parses it, chooses its key and decrypts
\* its FRMPayload.
KeyCall ==
  /\ call.op = "decode_key" /\ ~call.done
  /\ LET x == call.arg
         devaddr_le == <<218, 27, 1, 38>>
         phy == IF x.generated
                THEN build_abp_uplink(devaddr_le, NwkSKey, AppSKey, x.fcnt,
                                      x.app_payload, x.fport, FALSE)
                ELSE BareUplink(devaddr_le, NwkSKey, x.fcnt)
         uplink == parse_uplink(phy)
         key == DecodeKey(uplink.fport, NwkSKey, AppSKey)
     IN call' = [call EXCEPT
          !.done = TRUE,
          !.result = [uplink |-> uplink, key |-> key,
                      decrypted |->
                        lorawan_decrypt_payload(key, uplink.devaddr_le,
                                                uplink.fcnt,
                                                uplink.frm_payload, 0)]]
  /\ UNCHANGED <<replayVars, decode, progress, viewer>>

\* Frames of the generator over the range of the frame counter, for FPort
\* 0, an application port and the container port.
CounterChoices ==
  {[generated |-> TRUE, fport |-> p, fcnt |-> f, app_payload |-> AppPayload(n)] :
     p \in {0, 1, 29}, f \in FcntChoices, n \in ShortLens}

InitCounter ==
  /\ InitReplayVars /\ decode = IdleDecode
  /\ progress = NoProgressYet /\ viewer = NoView
  /\ \E x \in CounterChoices : call = Pending("decode_key", x)

\* ------------------------------------------------------------- scan
\* Most lines in one scanned log.
MaxLines == 3

\* The validation errors shown on the page.
PreviewLen == 10

\* What one line of a log can be: a record that passes every test (n tells
\* two of them apart), an empty line, or a line that fails one test.
ValidLines == {[kind |-> "valid", n |-> n] : n \in {1, 2}}
InvalidKinds ==
  {"invalid UTF-8 encoding.", "JSON decode error", "expected an object.",
   "missing gatewayEui or rxpk.", "Gateway EUI must be 8 bytes",
   "Missing rxpk.data payload.", "rxpk.data is not valid base64.",
   "PHYPayload too short to contain a DevAddr."}
InvalidLines == {[kind |-> k, n |-> 0] : k \in InvalidKinds}
BlankLine == [kind |-> "blank", n |-> 0]
LogLines == ValidLines \cup InvalidLines \cup {BlankLine}
Logs == UNION {[1..n -> LogLines] : n \in 0..MaxLines}

\* scan_logfile(stream): the parsed records and the errors, line by line.
RECURSIVE ScanFrom(_, _, _, _)
ScanFrom(stream, line_no, parsed, errors) ==
  IF line_no > Len(stream) THEN [parsed |-> parsed, errors |-> errors]
  ELSE LET line == stream[line_no] IN
       IF line.kind = "blank"
       THEN ScanFrom(stream, line_no + 1, parsed, errors)
       ELSE IF line.kind = "valid"
       THEN ScanFrom(stream, line_no + 1, Append(parsed, line), errors)
       ELSE ScanFrom(stream, line_no + 1, parsed,
                     Append(errors, [line_no |-> line_no,
                                     message |-> line.kind]))

scan_logfile(stream) == ScanFrom(stream, 1, <<>>, <<>>)

\* if scan_errors: ... "error"; if not parsed: ... "error"
ScanRefused(parsed, scan_errors) == scan_errors # <<>> \/ parsed = <<>>

\* scan(), from the opened stream on: the page it renders, and the parsed
\* set stored under the scan token it issues.
scan(stream) ==
  LET r == scan_logfile(stream) IN
  IF ScanRefused(r.parsed, r.errors)
  THEN [category |-> "error", scan_token |-> None, stored |-> <<>>,
        valid |-> Len(r.parsed),
        error_lines |-> SubSeq(r.errors, 1, Min(PreviewLen, Len(r.errors))),
        more |-> Len(r.errors) - Min(PreviewLen, Len(r.errors))]
  ELSE [category |-> "success", scan_token |-> 1, stored |-> r.parsed,
        valid |-> Len(r.parsed), error_lines |-> <<>>, more |-> 0]

InitScan ==
  /\ InitReplayVars /\ decode = IdleDecode
  /\ progress = NoProgressYet /\ viewer = NoView
  /\ \E stream \in Logs : call = Pending("scan", stream)

ScanCall ==
  /\ call.op = "scan" /\ ~call.done
  /\ call' = [call EXCEPT !.done = TRUE, !.result = scan(call.arg)]
  /\ UNCHANGED <<replayVars, decode, progress, viewer>>

\* ------------------------------------------------------------- rxpk overrides
\* REPLAY_RXPK_OVERRIDES; a frequency is written as its decimal string.
REPLAY_RXPK_OVERRIDES ==
  [freq |-> "868.1", chan |-> 0, rfch |-> 0, stat |-> 1, modu |-> "LORA",
   datr |-> "SF9BW125", codr |-> "4/5"]

\* {**a, **b}: a new dict with the keys of both, b's value where both have
\* the key.
DictMerge(a, b) ==
  [k \in DOMAIN a \cup DOMAIN b |-> IF k \in DOMAIN b THEN b[k] ELSE a[k]]

\* A faulty override: rxpk.update(REPLAY_RXPK_OVERRIDES) writes into the
\* dict the cached record holds.
RxpkToSend_InPlace(parsed, idx, override_rxpk) ==
  IF override_rxpk
  THEN [parsed |-> [parsed EXCEPT ![idx] = DictMerge(@, REPLAY_RXPK_OVERRIDES)],
        rxpk |-> DictMerge(parsed[idx], REPLAY_RXPK_OVERRIDES)]
  ELSE [parsed |-> parsed, rxpk |-> parsed[idx]]

\* rxpk = rec["rxpk"]; if entry.get("override_rxpk"): rxpk = {**rxpk,
\* **REPLAY_RXPK_OVERRIDES}: the rxpk handed to build_push_data, and the
\* cached list after the statement.
RxpkToSend(parsed, idx, override_rxpk) ==
  [parsed |-> parsed,
   rxpk |-> IF override_rxpk THEN DictMerge(parsed[idx], REPLAY_RXPK_OVERRIDES)
            ELSE parsed[idx]]

\* rxpk objects of a log: one from another channel, one that already has
\* the override values, one without the optional fields.
RxpkChoices ==
  { [freq |-> "867.5", chan |-> 2, rfch |-> 1, stat |-> 1, modu |-> "LORA",
     datr |-> "SF7BW125", codr |-> "4/5", data |-> "QNobASYAAQAB"],
    [freq |-> "868.1", chan |-> 0, rfch |-> 0, stat |-> 1, modu |-> "LORA",
     datr |-> "SF9BW125", codr |-> "4/5", data |-> "QNobASYAAgAB"],
    [freq |-> "868.3", datr |-> "SF12BW125", data |-> "QNobASYAAwAB"] }

ScannedRxpks == UNION {[1..n -> RxpkChoices] : n \in 1..NumRecords}

\* A job over a cached scan: arg is the list as it was scanned and the
\* job's override_rxpk; result is the cached list and the rxpk objects sent.
InitOverride ==
  /\ InitReplayVars
  /\ decode = IdleDecode /\ progress = NoProgressYet /\ viewer = NoView
  /\ \E parsed \in ScannedRxpks, override_rxpk \in BOOLEAN :
       call = [op |-> "run_replay_job", arg |-> <<parsed, override_rxpk>>,
               done |-> FALSE,
               result |-> [parsed |-> parsed, packets |-> <<>>]]

\* One iteration of the worker's loop over the cached list.
ReplayRecord ==
  LET idx == Len(call.result.packets) + 1
      step == RxpkToSend(call.result.parsed, idx, call.arg[2])
  IN
  /\ call.op = "run_replay_job" /\ ~call.done
  /\ call' = [call EXCEPT
       !.result = [parsed |-> step.parsed,
                   packets |-> Append(call.result.packets, step.rxpk)],
       !.done = (idx = Len(call.result.parsed))]
  /\ UNCHANGED <<replayVars, decode, progress, viewer>>

\* ------------------------------------------------------------- specification
\* One job from start to its end, its stop requests, the page polling it,
\* and time.
Next ==
  \/ \E t \in Tokens, d \in DelayChoices : Start(t, d)
  \/ \E t \in Tokens : WorkerCheck(t)
  \/ \E t \in Tokens, o \in Outcomes : WorkerSend(t, o)
  \/ \E t \in Tokens : WorkerWake(t)
  \/ \E t \in Tokens : WorkerUpdate(t)
  \/ \E t \in Tokens : WorkerFinRead(t)
  \/ \E t \in Tokens : WorkerFinWrite(t)
  \/ \E s \in Stoppers, t \in Tokens : StopCheck(s, t)
  \/ \E s \in Stoppers : StopAppend(s)
  \/ \E s \in Stoppers : StopFlip(s)
  \/ \E t \in Tokens : PollOpen(t)
  \/ Poll
  \/ \E t \in Tokens : Expire(t)

\* The jobs of one start and their resumes, with one stop request at a time.
OneStopper == {s \in Stoppers : s = 1}

NextResume ==
  \/ \E t \in Tokens, d \in DelayChoices : Start(t, d)
  \/ \E t \in Tokens : WorkerCheck(t)
  \/ \E t \in Tokens, o \in Outcomes : WorkerSend(t, o)
  \/ \E t \in Tokens : WorkerWake(t)
  \/ \E t \in Tokens : WorkerUpdate(t)
  \/ \E t \in Tokens : WorkerFinRead(t)
  \/ \E t \in Tokens : WorkerFinWrite(t)
  \/ \E s \in OneStopper, t \in Tokens : StopCheck(s, t)
  \/ \E s \in OneStopper : StopAppend(s)
  \/ \E s \in OneStopper : StopFlip(s)
  \/ \E t \in Tokens, sc \in BOOLEAN : ResumeCheck(t, sc)
  \/ ResumeReadIndex
  \/ ResumeReadSent
  \/ ResumeReadErrors
  \/ \E t \in Tokens : ResumeStore(t)
  \/ \E t \in Tokens : Expire(t)

\* The decode requests of one user, with or without a progress id.
OneUser == {u \in Users : u = "alice"}
OneProgressId == {NoId} \cup {p \in ProgressIds : p = "p1"}

NextDecode ==
  \/ \E u \in OneUser, p \in OneProgressId,
        allowed \in BOOLEAN, decoder_loads \in BOOLEAN :
       DecodeRequest(u, p, allowed, decoder_loads)
  \/ DecodeRecord
  \/ DecodeFinish

\* The decode requests of all users and the polls of their progress.
NextProgress ==
  \/ \E u \in Users, p \in {NoId} \cup ProgressIds,
        allowed \in BOOLEAN, decoder_loads \in BOOLEAN :
       DecodeRequest(u, p, allowed, decoder_loads)
  \/ DecodeRecord
  \/ DecodeFinish
  \/ \E u \in Users, p \in {NoId} \cup ProgressIds : DecodeProgressPoll(u, p)

Init == InitReplay

Spec == Init /\ [][Next]_vars

SpecResume == Init /\ [][NextResume]_vars

\* A scanned batch and a credential store, before any decode request.
InitDecode ==
  /\ InitReplayVars
  /\ InitOther
  /\ \E parsed \in Batches, credentials \in [DevAddrs -> EntryChoices] :
       decode = [IdleDecode EXCEPT !.parsed = parsed,
                                   !.credentials = credentials]

SpecDecode == InitDecode /\ [][NextDecode]_vars

\* A batch of uplinks of one device whose keys are stored.
GoodStore == [d \in DevAddrs |-> [nwk_skey |-> GoodKey, app_skey |-> GoodKey]]
OneDeviceBatches ==
  {b \in Batches : \A i \in 1..Len(b) :
     /\ b[i].devaddr = "26011BDA"
     /\ b[i].frame \in {Frame(TRUE, 1, TRUE, TRUE, <<>>, TRUE),
                        Frame(TRUE, 1, TRUE, TRUE, <<>>, FALSE)}}

InitProgress ==
  /\ InitReplayVars
  /\ InitOther
  /\ \E parsed \in OneDeviceBatches :
       decode = [IdleDecode EXCEPT !.parsed = parsed,
                                   !.credentials = GoodStore]

SpecProgress == InitProgress /\ [][NextProgress]_vars

\* The decode requests and progress polls of all users while time passes.
NextAge ==
  \/ NextProgress
  \/ ProgressExpire

SpecAge == InitProgress /\ [][NextAge]_vars

\* parse_uplink applied once to one PHYPayload.
SpecParse == InitParse /\ [][ParseCall]_vars

\* unpack_port29_messages applied once to one container payload.
SpecUnpack == InitUnpack /\ [][UnpackCall]_vars

\* One uplink built by build_abp_uplink and decrypted by
\* lorawan_decrypt_payload.
SpecCrypt == InitCrypt /\ [][CryptCall]_vars

\* One scan of one uploaded or stored log.
SpecScan == InitScan /\ [][ScanCall]_vars

\* lorawan_decrypt_payload applied twice to one payload.
SpecTwice == InitTwice /\ [][TwiceCall]_vars

\* The decode requests of one user with a decoder whose process may not
\* end.  The request thread that can take a step takes it.
NextHang ==
  \/ \E u \in OneUser, p \in OneProgressId,
        allowed \in BOOLEAN, decoder_loads \in BOOLEAN :
       DecodeRequest(u, p, allowed, decoder_loads)
  \/ DecodeRecord
  \/ DecodeBlocked
  \/ DecodeFinish

SpecHang ==
  /\ InitProgress
  /\ [][NextHang]_vars
  /\ WF_vars(DecodeRecord \/ DecodeFinish)

\* One frame parsed and decrypted with the key decode chooses for it.
SpecKey == InitKey /\ [][KeyCall]_vars

\* A replay of a cached scan, record by record.
SpecOverride == InitOverride /\ [][ReplayRecord]_vars

\* One generated frame of any frame counter, parsed and decrypted by decode.
SpecCounter == InitCounter /\ [][KeyCall]_vars

\* A worker thread that can take a step eventually takes it: the scheduler
\* is fair, sendto on a datagram socket returns, and a sleep ends.
WorkerStep(t) ==
  \/ WorkerCheck(t)
  \/ \E o \in Outcomes : WorkerSend(t, o)
  \/ WorkerWake(t)
  \/ WorkerUpdate(t)
  \/ WorkerFinRead(t)
  \/ WorkerFinWrite(t)

SpecLive == Init /\ [][Next]_vars /\ \A t \in Tokens : WF_vars(WorkerStep(t))

\* ------------------------------------------------------------- properties
Iota(n) == [i \in 1..n |-> i]
\* The record indices of the Sent/Error lines of a log, in log order.
Indices(log) == [i \in 1..Len(RecordLines(log)) |-> RecordLines(log)[i].index]
Issued(t) == cache[t].where # "unused"
\* A stop request has acted on the job.
StopCalled(t) ==
  \/ CountStatus(cache[t].log_lines, "Stopped") > 0
  \/ \E s \in Stoppers : stopper[s].token = t

\* C1: when a job created by resume is done, its log holds exactly one
\* Sent or Error line for each record index 1..N, in increasing order (no
\* record is sent twice, none is skipped).
C1_ResumedLogExactlyOnce ==
  \A t \in Tokens :
    (parent[t] # 0 /\ InCache(cache, t) /\ cache[t].status = "done"
       /\ worker[t].pc = "exit")
    => Indices(cache[t].log_lines) = Iota(NumRecords)

\* C2: once a job's status is done it never changes again.
C2_DoneIsTerminal ==
  [][\A t \in Tokens :
       cache[t].status = "done" => cache'[t].status = "done"]_vars

\* C3: while a job's status is stopped its worker starts no new send; the
\* only record line its log can still gain is the one of the send that was
\* in flight, and that send's line is appended; the worker then exits.
C3_CooperativeStop ==
  /\ [][\A t \in Tokens :
       (InCache(cache, t) /\ cache[t].status = "stopped") =>
         LET before == RecordLines(cache[t].log_lines)
             after == RecordLines(cache'[t].log_lines)
         IN
         /\ worker'[t].pc = "send" => worker[t].pc = "send"
         /\ after # before =>
              /\ worker[t].pc = "send"
              /\ worker'[t].pc \in {"sleep", "update"}
              /\ Len(after) = Len(before) + 1
              /\ IsPrefix(before, after)
         /\ (worker[t].pc = "send" /\ worker'[t].pc # "send") =>
              /\ Len(after) = Len(before) + 1
              /\ after[Len(after)].index = worker[t].idx]_vars
  /\ \A t \in Tokens :
       (cache[t].status = "stopped") ~> (worker[t].pc = "exit")

\* C3 witness: a job is stopped and the line of the send that was in
\* flight has been appended after the Stopped line.
C3_Witness ==
  \E t \in Tokens :
    LET log == cache[t].log_lines IN
    /\ InCache(cache, t) /\ cache[t].status = "stopped"
    /\ worker[t].pc \in {"sleep", "update"}
    /\ Len(log) >= 2
    /\ log[Len(log)].status \in {"Sent", "Error"}
    /\ log[Len(log) - 1].status = "Stopped"

\* C4: whatever the number of stop calls on a job, its log gains exactly
\* one Stopped line.
C4_OneStoppedLine ==
  \A t \in Tokens : CountStatus(cache[t].log_lines, "Stopped") <= 1

\* C5: for a job created by start, sent and errors of the entry, and of
\* every status snapshot a poller got, equal the numbers of Sent and Error
\* lines of the log (of the lines delivered up to that snapshot).
C5_CountersMatchLog ==
  /\ \A t \in Tokens :
       (Issued(t) /\ parent[t] = 0) =>
         /\ cache[t].sent = CountStatus(cache[t].log_lines, "Sent")
         /\ cache[t].errors = CountStatus(cache[t].log_lines, "Error")
  /\ (poller.token # 0 /\ parent[poller.token] = 0
        /\ poller.status # "none") =>
         /\ poller.sent = CountStatus(poller.lines, "Sent")
         /\ poller.errors = CountStatus(poller.lines, "Error")

\* C5 witness: a snapshot that shows both a sent and an error count.
C5_Witness ==
  /\ poller.token # 0 /\ parent[poller.token] = 0
  /\ poller.sent >= 1 /\ poller.errors >= 1
  /\ poller.status = "running"

\* C6: the log of a token only grows by appending, and a client polling
\* with since = the count of its previous poll has received exactly the
\* first count lines of the log, each once and in log order.
C6_AppendOnlyPolling ==
  /\ [][\A t \in Tokens :
          IsPrefix(cache[t].log_lines, cache'[t].log_lines)]_vars
  /\ [](poller.token # 0 =>
          /\ poller.received <= Len(cache[poller.token].log_lines)
          /\ poller.lines =
               SubSeq(cache[poller.token].log_lines, 1, poller.received))

\* C6 witness: a client that has received lines and has more to fetch.
C6_Witness ==
  /\ poller.token # 0
  /\ poller.received >= 2
  /\ Len(poller.lines) = poller.received
  /\ Len(cache[poller.token].log_lines) > poller.received

\* A job created by start, still in the map, on which no stop has acted.
Undisturbed(t) ==
  Issued(t) /\ parent[t] = 0 /\ InCache(cache, t) /\ ~StopCalled(t)

\* C7: a job created by start reaches done unless a stop is called on it
\* or it is evicted; and a done job on which no stop acted has
\* sent + errors = total, current_index = total and total Sent/Error lines.
C7_RunsToDone ==
  /\ \A t \in Tokens :
       [](Undisturbed(t) =>
            <>(cache[t].status = "done" \/ ~Undisturbed(t)))
  /\ [](\A t \in Tokens :
          (Undisturbed(t) /\ cache[t].status = "done") =>
            /\ cache[t].sent + cache[t].errors = cache[t].total
            /\ cache[t].current_index = cache[t].total
            /\ Len(RecordLines(cache[t].log_lines)) = cache[t].total)

\* C7 witness: a job that ran to done without a stop.
C7_Witness ==
  \E t \in Tokens :
    /\ Undisturbed(t) /\ cache[t].status = "done"
    /\ cache[t].sent >= 1 /\ cache[t].errors >= 1

\* C8: in a job created by start the Sent and Error lines carry the
\* indices 1, 2, 3, ... in log order.
C8_IndexOrder ==
  \A t \in Tokens :
    (Issued(t) /\ parent[t] = 0) =>
      Indices(cache[t].log_lines) = Iota(Len(RecordLines(cache[t].log_lines)))

\* C8 witness: every record has its line, with a Stopped line among them.
C8_Witness ==
  \E t \in Tokens :
    /\ Issued(t) /\ parent[t] = 0
    /\ Len(RecordLines(cache[t].log_lines)) = NumRecords
    /\ CountStatus(cache[t].log_lines, "Error") >= 1
    /\ CountStatus(cache[t].log_lines, "Stopped") >= 1

\* What a job entry is, apart from its place in the map.
JobFields(e) ==
  <<e.status, e.total, e.sent, e.errors, e.delay_ms, e.start_index,
    e.current_index, e.log_lines>>

\* C9: a resume request for a token whose job is not in the map, or is in
\* it with a status other than stopped, is answered without a job: no
\* token is issued, no worker is started, and no field of any job changes
\* (expired entries are pruned from the map, as by any lookup).
C9_ResumeOnlyFromStopped ==
  [][\A t \in Tokens, sc \in BOOLEAN :
       (/\ ResumeCheck(t, sc)
        /\ ~(InCache(prune_replay_cache(cache), t)
               /\ cache[t].status = "stopped"))
       => /\ resumer'.pc = "idle" /\ resumer'.answer = 0
          /\ worker' = worker
          /\ parent' = parent
          /\ \A u \in Tokens :
               /\ JobFields(cache'[u]) = JobFields(cache[u])
               /\ Issued(u)' = Issued(u)
               /\ InCache(cache', u) = (InCache(cache, u) /\ ~cache[u].stale)
     ]_vars

\* Both keys of the entry are 32 hex characters.
UsableKeys(entry) ==
  /\ Len(entry.nwk_skey) = KeyChars /\ IsHex(entry.nwk_skey)
  /\ Len(entry.app_skey) = KeyChars /\ IsHex(entry.app_skey)

\* C10: when a scanned DevAddr has no keys in the store, or keys that are
\* not 32 hex characters each, the decode request emits no row and invokes
\* neither decrypt nor the decoder.
C10_MissingKeysRefuseBatch ==
  (\E d \in ScannedDevAddrs(decode.parsed) :
      ~UsableKeys(decode.credentials[d]))
  => /\ decode.rows = <<>>
     /\ decode.decrypts = 0
     /\ decode.decoder_calls = 0

\* C10 divergence: a stored 32-character key that is not hex passed the
\* gate; its device's record became an Error row and another device's record
\* was decrypted and decoded.
C10_NonHexKeyPassesGate ==
  \E a \in DevAddrs, b \in DevAddrs :
    /\ a # b
    /\ decode.credentials[a] = [nwk_skey |-> NonHexKey, app_skey |-> GoodKey]
    /\ decode.credentials[b] = [nwk_skey |-> GoodKey, app_skey |-> GoodKey]
    /\ decode.result = "complete"
    /\ decode.decrypts > 0 /\ decode.decoder_calls > 0
    /\ \E r1 \in 1..Len(decode.rows), r2 \in 1..Len(decode.rows) :
         /\ decode.rows[r1].status = "Error"
         /\ decode.parsed[decode.rows[r1].record].devaddr = a
         /\ decode.rows[r2].status = "Decoded"
         /\ decode.parsed[decode.rows[r2].record].devaddr = b

\* C9 witness: a resume of a done job was refused, and no job was resumed.
C9_Witness ==
  \E t \in Tokens :
    /\ resumer.pc = "idle" /\ resumer.asked = t /\ resumer.answer = 0
    /\ InCache(cache, t) /\ cache[t].status = "done"
    /\ \A u \in Tokens : parent[u] = 0 /\ (u # t => ~Issued(u))

\* The rows of a result list that come from input record j.
RowsOfRecord(rows, j) == SelectSeq(rows, LAMBDA r : r.record = j)
\* Status, port and decoded value of each row of a list.
Content(rows) ==
  [k \in 1..Len(rows) |-> <<rows[k].status, rows[k].fport, rows[k].decoded>>]
\* The rows a record yields in a pass that holds no other record.
RowsAlone(rec, credentials) == DecodeOne(IdleDecode, rec, credentials, 1).rows
\* A decode pass is running or has completed.
InPass == decode.pc = "loop" \/ decode.result = "complete"

\* C11: a failure on one record does not abort the pass: every record is
\* processed, and the rows of each record have the count, status and
\* decoded values they have when the record is decoded alone, whatever
\* happened to the other records.
C11_FailureDoesNotAbort ==
  InPass =>
    /\ decode.result = "complete" => decode.idx = Len(decode.parsed)
    /\ \A j \in 1..decode.idx :
         Content(RowsOfRecord(decode.rows, j)) =
           Content(RowsAlone(decode.parsed[j], decode.credentials))

\* C11 witness: a pass completed whose first record failed and whose second
\* record was decoded.
C11_Witness ==
  /\ decode.result = "complete" /\ Len(decode.parsed) = 2
  /\ \E k \in 1..Len(decode.rows) :
       decode.rows[k].record = 1 /\ decode.rows[k].status = "Error"
  /\ \E k \in 1..Len(decode.rows) :
       decode.rows[k].record = 2 /\ decode.rows[k].status = "Decoded"

\* The record fails to parse, to decrypt (its keys are not hex, or the
\* cipher fails), to unpack, or to decode as a non-container frame.
RecordFails(rec, credentials) ==
  LET f == rec.frame
      keys == credentials[rec.devaddr]
  IN \/ ~f.parse_ok
     \/ ~hex_to_bytes_ok(keys.nwk_skey) \/ ~hex_to_bytes_ok(keys.app_skey)
     \/ ~f.decrypt_ok
     \/ f.fport = 29 /\ (~f.unpack_ok \/ f.messages = <<>>)
     \/ f.fport # 29 /\ ~f.dec_ok

\* C12: every processed record has at least one row: exactly one Error row
\* when it fails, exactly one Decoded row when it is a non-container frame
\* that decodes, exactly M rows when it is a container of M >= 1
\* sub-messages.
C12_NoRecordDropped ==
  InPass =>
    \A j \in 1..decode.idx :
      LET rec == decode.parsed[j]
          rs == RowsOfRecord(decode.rows, j)
      IN
      /\ Len(rs) >= 1
      /\ IF RecordFails(rec, decode.credentials)
         THEN Len(rs) = 1 /\ rs[1].status = "Error"
         ELSE IF rec.frame.fport # 29
         THEN Len(rs) = 1 /\ rs[1].status = "Decoded"
         ELSE Len(rs) = Len(rec.frame.messages)

\* C12 witness: a completed pass over a container of two sub-messages, one
\* of which the decoder rejected, and a record that failed to unpack.
C12_Witness ==
  /\ decode.result = "complete" /\ Len(decode.parsed) = 2
  /\ Len(decode.parsed[1].frame.messages) = 2
  /\ ~decode.parsed[1].frame.messages[1].dec_ok
  /\ ~decode.parsed[2].frame.unpack_ok
  /\ Len(decode.rows) = 3

\* C13: the k-th row of the result list has index k.
C13_RowsNumberedFromOne ==
  \A k \in 1..Len(decode.rows) : decode.rows[k].index = k

\* C13 divergence: the decoder failed on the only record, a non-container
\* frame, and the only row of the result has index 2.
C13_FirstRowNumberedTwo ==
  /\ decode.result = "complete" /\ Len(decode.parsed) = 1
  /\ decode.parsed[1].frame.fport = 1 /\ ~decode.parsed[1].frame.dec_ok
  /\ Len(decode.rows) = 1
  /\ decode.rows[1].status = "Error" /\ decode.rows[1].index = 2

\* C14: the rows follow the order of the input records, and their index
\* values are strictly increasing along the list.
C14_RowsInInputOrder ==
  \A k \in 1..Len(decode.rows), l \in 1..Len(decode.rows) :
    k < l => /\ decode.rows[k].record <= decode.rows[l].record
             /\ decode.rows[k].index < decode.rows[l].index

\* C14 witness: the two rows of a container, then the Error row of the
\* record after it.
C14_Witness ==
  /\ decode.pc = "loop" /\ Len(decode.rows) = 3
  /\ decode.rows[1].record = 1 /\ decode.rows[2].record = 1
  /\ decode.rows[3].record = 2 /\ decode.rows[3].status = "Error"

\* The entry a request published under its progress id.
Published == progress[decode.progress_id]

\* C15: during a pass over N records the published progress has total = N
\* and completed = the number of records behind the loop, which advances by
\* exactly one per record; completed never exceeds total; done is published
\* only by the end of the pass, with completed = total.
C15_ProgressPerRecord ==
  /\ [](\A p \in ProgressIds :
          progress[p] # NoProgress =>
            /\ progress[p].completed \in 0..progress[p].total
            /\ progress[p].done => progress[p].completed = progress[p].total)
  /\ []((InPass /\ decode.progress_id # NoId) =>
          /\ Published.total = Len(decode.parsed)
          /\ Published.completed = decode.idx
          /\ Published.done = (decode.result = "complete"))
  /\ [][(decode.pc = "loop" /\ decode.progress_id # NoId) =>
          IF decode'.idx # decode.idx
          THEN /\ progress'[decode.progress_id].completed =
                    Published.completed + 1
               /\ ~progress'[decode.progress_id].done
          ELSE /\ progress'[decode.progress_id].completed = Published.completed
               /\ Published.completed = Published.total]_vars

\* C15 witness: the progress after the first of two records, a container
\* that produced two rows.
C15_Witness ==
  /\ decode.pc = "loop" /\ decode.progress_id # NoId
  /\ Len(decode.parsed) = 2 /\ Len(decode.rows) = 2
  /\ Published.completed = 1 /\ Published.total = 2 /\ ~Published.done

\* C16: a poll by user u for progress id p is answered with an entry only
\* when the entry under p was last written for u, and then with that
\* entry's values; when it was written for another user the answer is
\* not_found and carries no value.
C16_ProgressOnlyForItsUser ==
  [][\A u \in Users, p \in ProgressIds :
       DecodeProgressPoll(u, p) =>
         IF progress[p] # NoProgress /\ progress[p].user_id = u
         THEN /\ viewer'.answer = "ok"
              /\ viewer'.completed = progress[p].completed
              /\ viewer'.total = progress[p].total
              /\ viewer'.done = progress[p].done
         ELSE /\ viewer'.answer = "not_found"
              /\ viewer'.completed = None /\ viewer'.total = None
              /\ ~viewer'.done]_vars

\* C16 witness: bob asked for the id under which alice's running decode
\* publishes, and got not_found.
C16_Witness ==
  /\ viewer.user_id = "bob" /\ viewer.answer = "not_found"
  /\ viewer.progress_id \in ProgressIds
  /\ progress[viewer.progress_id].user_id = "alice"
  /\ progress[viewer.progress_id].completed = 1
  /\ decode.pc = "loop" /\ decode.user_id = "alice"

Parsed == call.op = "parse_uplink" /\ call.done

\* C18: parse_uplink fails exactly when the PHYPayload has fewer than 12
\* bytes, or its message type (bits 7..5 of the first byte) is neither 2
\* nor 4, or its MACPayload (all bytes but the first and the last four) is
\* shorter than 7 + (FCtrl & 0x0F); it succeeds on every other byte string,
\* and no failure is a read outside the byte string.
C18_ParseFailsExactlyOnMalformed ==
  Parsed =>
    LET phy == call.arg
        malformed ==
          \/ Len(phy) < 12
          \/ ((phy[1] \div 32) % 8) \notin {2, 4}
          \/ Len(phy) - 5 < 7 + (phy[6] % 16)
    IN /\ call.result.ok <=> ~malformed
       /\ call.result.error # "IndexError"
       /\ call.result.ok =>
            /\ Len(call.result.fopts) = phy[6] % 16
            /\ Len(call.result.devaddr_le) = 4
            /\ call.result.fcnt = phy[7] + 256 * phy[8]
            /\ 8 + Len(call.result.fopts)
                 + (IF call.result.fport = None THEN 0 ELSE 1)
                 + Len(call.result.frm_payload) + 4 = Len(phy)

\* A frame with 15 FOpts bytes, an FPort and a payload is parsed.
C18_Witness ==
  /\ Parsed /\ call.result.ok
  /\ Len(call.result.fopts) = 15
  /\ call.result.fport # None
  /\ call.result.frm_payload # <<>>

Unpacked == call.op = "unpack_port29_messages" /\ call.done

\* C19: a payload serialised from N sub-messages (port, reserved byte,
\* length, message, little-endian 32-bit timestamp) unpacks into exactly N
\* messages, in order, with port, payload and timestamp equal to the
\* inputs, also when a sub-message has an empty payload.
C19_Port29RoundTrip ==
  (Unpacked /\ call.arg.tail = <<>>) =>
     /\ call.result.ok
     /\ call.result.messages = call.arg.msgs

\* One sub-message with the payload 05 comes back with the payload 00 01 05.
C19_PayloadCarriesHeader ==
  /\ Unpacked /\ call.arg.tail = <<>>
  /\ call.arg.msgs = <<[port |-> 1, payload |-> <<5>>, timestamp |-> U32(0, 0, 0, 0)]>>
  /\ call.result.ok
  /\ call.result.messages =
       <<[port |-> 1, payload |-> <<0, 1, 5>>, timestamp |-> U32(0, 0, 0, 0)]>>

\* C20: a port-29 payload in which the header of a sub-message declares
\* more bytes than are left is refused with an error, and a sub-message
\* that is cut short at the end of the payload is never left out silently.
C20_TruncatedContainerFails ==
  (Unpacked /\ call.arg.tail # <<>>) => ~call.result.ok

\* A whole sub-message followed by a header declaring 9 bytes with none
\* left unpacks without an error, as one message.
C20_TruncatedTailIgnored ==
  /\ Unpacked /\ call.arg.tail = <<1, 0, 9>>
  /\ Len(call.arg.msgs) = 1
  /\ call.result.ok
  /\ Len(call.result.messages) = 1

Crypted == call.op = "round_trip" /\ call.done

\* C17 as stated: for every application payload, the FRMPayload of the
\* uplink built by build_abp_uplink decrypts, as an uplink with the same
\* key, DevAddr and frame counter, to the application payload.
C17_RoundTripEveryPayload ==
  Crypted =>
    /\ call.result.uplink.ok
    /\ call.result.decrypted.ok
    /\ call.result.decrypted.bytes = call.arg.app_payload

\* C17: for every application payload of at most 255 blocks of 16 bytes,
\* the FRMPayload of the uplink built by build_abp_uplink has the length of
\* the payload and decrypts, as an uplink with the same key, DevAddr and
\* frame counter, to the application payload; a longer payload is refused
\* by the decryption.
C17_RoundTripUpTo255Blocks ==
  Crypted =>
    /\ call.result.uplink.ok
    /\ Len(call.result.uplink.frm_payload) = Len(call.arg.app_payload)
    /\ IF Len(call.arg.app_payload) <= 16 * ByteMax
       THEN /\ call.result.decrypted.ok
            /\ call.result.decrypted.bytes = call.arg.app_payload
       ELSE ~call.result.decrypted.ok

\* A payload of three blocks, the last of one byte, with a frame counter
\* above 16 bits: the FRMPayload differs from the payload and decrypts to it.
C17_Witness ==
  /\ Crypted
  /\ Len(call.arg.app_payload) = 33
  /\ call.arg.fcnt = 65536
  /\ call.result.uplink.frm_payload # call.arg.app_payload
  /\ call.result.decrypted.ok
  /\ call.result.decrypted.bytes = call.arg.app_payload

Scanned == call.op = "scan" /\ call.done

\* C21: a scan of a log with invalid lines and at least one valid line
\* succeeds: the valid lines, in input order, are stored under the scan
\* token that is issued; the scan is refused only when no valid line is
\* left.
C21_ScanKeepsValidLines ==
  Scanned =>
    LET valid == SelectSeq(call.arg, LAMBDA l : l.kind = "valid") IN
    /\ (valid # <<>>) =>
         /\ call.result.category = "success"
         /\ call.result.scan_token # None
         /\ call.result.stored = valid
    /\ (valid = <<>>) => call.result.category = "error"

\* A log of one valid line and one line that is not JSON is refused: no
\* token is issued, though one valid uplink was counted.
C21_MixedLogRefused ==
  /\ Scanned
  /\ \E i \in 1..Len(call.arg) : call.arg[i].kind = "valid"
  /\ \E i \in 1..Len(call.arg) : call.arg[i].kind = "JSON decode error"
  /\ call.result.category = "error"
  /\ call.result.scan_token = None
  /\ call.result.valid >= 1

DecryptedTwice == call.op = "decrypt_twice" /\ call.done

\* C22 as stated: the decryption applied twice, with the same key, DevAddr,
\* frame counter and direction, to a payload that is not empty does not
\* return the payload.
C22_TwiceIsNotIdentity ==
  (DecryptedTwice /\ call.arg.payload # <<>>) =>
     call.result.twice.bytes # call.arg.payload

\* C22: the decryption applied twice, with the same key, DevAddr, frame
\* counter and direction, returns the payload it was first applied to: the
\* same key stream is XORed in twice.
C22_TwiceIsIdentity ==
  DecryptedTwice =>
    /\ call.result.once.ok /\ call.result.twice.ok
    /\ Len(call.result.once.bytes) = Len(call.arg.payload)
    /\ call.result.twice.bytes = call.arg.payload

\* A payload of 17 bytes is changed by the first decryption and restored
\* by the second.
C22_Witness ==
  /\ DecryptedTwice
  /\ Len(call.arg.payload) = 17
  /\ call.arg.direction = 1
  /\ call.result.once.bytes # call.arg.payload
  /\ call.result.twice.bytes = call.arg.payload

\* C23: a job whose status is running is never removed from the job map,
\* whatever its delay is and whichever operation prunes the map: only a
\* job that has ended is removed, when its time to live has passed.
C23_RunningJobStaysCached ==
  [][\A t \in Tokens :
       (InCache(cache, t) /\ cache[t].status = "running")
          => InCache(cache', t)]_vars

\* A job with a delay longer than the time to live is removed while its
\* worker sleeps between two records, its status still running.
C23_RunningJobEvicted ==
  \E t \in Tokens :
    /\ cache[t].where = "evicted"
    /\ cache[t].status = "running"
    /\ worker[t].pc = "sleep"
    /\ worker[t].delay_ms > REPLAY_CACHE_TTL * 1000

\* C24: a status poll answered not_found is the last poll of the page:
\* no page receives a second not_found answer for its token.
C24_NotFoundIsTerminal == poller.not_found <= 1

\* The page of an evicted job has polled twice, both polls answered
\* not_found, and it has not stopped polling.
C24_PolledAgainAfterNotFound ==
  /\ poller.token # 0
  /\ cache[poller.token].where = "evicted"
  /\ poller.not_found = 2
  /\ ~poller.done

\* C25: a decode pass over a finite batch always ends: a decoder call that
\* does not return is cut off and the remaining records are processed.
C25_DecodePassEnds == (decode.pc = "loop") ~> (decode.pc = "idle")

\* The request waits for the decoder of the first of two records: no row
\* has been appended and the second record has not been reached.
C25_PassWaitsForDecoder ==
  /\ decode.pc = "decoder"
  /\ Len(decode.parsed) = 2
  /\ decode.idx = 0
  /\ decode.rows = <<>>

Keyed == call.op = "decode_key" /\ call.done

\* C26: decode decrypts a parsed frame with AppSKey when its FPort is
\* neither 0 nor absent and with NwkSKey otherwise; build_abp_uplink
\* chooses the same key for the FPort it encodes, so the payload of a
\* generated frame is decrypted to the application payload for every FPort.
C26_KeyFollowsFPort ==
  Keyed =>
    /\ call.result.uplink.ok
    /\ call.result.uplink.fport = call.arg.fport
    /\ call.result.key =
         (IF call.result.uplink.fport \in FPorts \ {0}
          THEN AppSKey ELSE NwkSKey)
    /\ call.arg.generated =>
         /\ call.result.key = GeneratorKey(call.arg.fport, NwkSKey, AppSKey)
         /\ call.result.decrypted.ok
         /\ call.result.decrypted.bytes = call.arg.app_payload

\* A generated frame of FPort 0 is decrypted with NwkSKey to its payload,
\* which AppSKey would not give.
C26_Witness ==
  /\ Keyed /\ call.arg.generated
  /\ call.arg.fport = 0
  /\ call.result.key = NwkSKey
  /\ call.result.decrypted.bytes = call.arg.app_payload
  /\ lorawan_decrypt_payload(AppSKey, call.result.uplink.devaddr_le,
                             call.result.uplink.fcnt,
                             call.result.uplink.frm_payload, 0).bytes
       # call.arg.app_payload

\* The index of the last Sent or Error line of a log, or start_index when
\* the log has none.
LastRecordIndex(log, start_index) ==
  IF RecordLines(log) = <<>> THEN start_index
  ELSE RecordLines(log)[Len(RecordLines(log))].index

\* C27: whenever the status of a job is stopped, its current_index is the
\* index of the last Sent or Error line of its log (its start_index when
\* there is none): current_index never lags behind a logged record while
\* the job can be resumed.
C27_StoppedIndexMatchesLog ==
  \A t \in Tokens :
    (Issued(t) /\ cache[t].status = "stopped") =>
       cache[t].current_index
         = LastRecordIndex(cache[t].log_lines, cache[t].start_index)

\* A job is stopped while its worker is between the line of record 1 and
\* the update of current_index: the log holds record 1, current_index is 0.
C27_StoppedIndexLags ==
  \E t \in Tokens :
    /\ InCache(cache, t)
    /\ cache[t].status = "stopped"
    /\ worker[t].pc \in {"sleep", "update"}
    /\ LastRecordIndex(cache[t].log_lines, cache[t].start_index) = 1
    /\ cache[t].current_index = 0

\* C28: the Stopped line and the status stopped are seen together: no
\* status snapshot shows a log that ends with a Stopped line while the
\* status is running, and no send starts once the Stopped line is in the
\* log, so that no Sent line of a later send follows it.
C28_StoppedLineWithStatus ==
  /\ [](\A t \in Tokens :
          (poller.token = t /\ poller.lines # <<>>
             /\ poller.lines[Len(poller.lines)].status = "Stopped")
            => poller.status # "running")
  /\ [][\A t \in Tokens :
          (worker[t].pc = "check" /\ worker'[t].pc = "send")
            => CountStatus(cache[t].log_lines, "Stopped") = 0]_vars

\* A poll between the two writes of replay_stop: the page holds the Stopped
\* line as its last line and the status running.
C28_SnapshotBetweenWrites ==
  /\ poller.token # 0
  /\ poller.lines # <<>>
  /\ poller.lines[Len(poller.lines)].status = "Stopped"
  /\ poller.status = "running"
  /\ \E s \in Stoppers : stopper[s].pc = "flip" /\ stopper[s].token = poller.token

\* C29: the job that resume creates under a fresh token starts from one
\* snapshot of the stopped job: its sent is the number of Sent lines of its
\* log, its errors the number of Error lines, its current_index the index
\* of the last Sent or Error line, and resume leaves the fields of the old
\* job as they are.
C29_ResumeCarriesSnapshot ==
  [][\A t \in Tokens :
       (cache[t].where = "unused" /\ cache'[t].where = "cached"
          /\ parent'[t] # 0)
         => /\ cache'[t].sent = CountStatus(cache'[t].log_lines, "Sent")
            /\ cache'[t].errors = CountStatus(cache'[t].log_lines, "Error")
            /\ cache'[t].current_index
                 = LastRecordIndex(cache'[t].log_lines, 0)
            /\ [cache'[parent'[t]] EXCEPT !.where = "cached", !.stale = FALSE]
                 = [cache[parent'[t]] EXCEPT !.where = "cached",
                                             !.stale = FALSE]]_vars

\* A resumed job whose worker has not yet run: its log ends with the
\* Stopped line of the old job and holds the line of record 1, its sent is
\* 1, and its current_index is 0.
C29_ResumedJobBehindItsLog ==
  \E t \in Tokens :
    /\ parent[t] # 0
    /\ InCache(cache, t)
    /\ worker[t].pc = "check"
    /\ cache[t].log_lines = cache[parent[t]].log_lines
    /\ LastRecordIndex(cache[t].log_lines, 0) = 1
    /\ cache[t].sent + cache[t].errors = 1
    /\ cache[t].current_index = 0

\* The worker of job t builds and sends a record in this step.
Sends(t) == worker[t].pc = "send" /\ worker'[t].pc # "send"

\* C30: a build or send failure on record i appends one Error line with
\* index i, adds one to errors and leaves sent as it is, and the worker
\* goes on in its loop, to record i + 1; a successful send appends one Sent
\* line with index i, adds one to sent and leaves errors as it is.
C30_OneLinePerOutcome ==
  [][\A t \in Tokens :
       /\ Sends(t) =>
            \E status \in {"Sent", "Error"} :
              /\ cache'[t].log_lines
                   = Append(cache[t].log_lines,
                            [index |-> worker[t].idx, status |-> status])
              /\ cache'[t].sent
                   = cache[t].sent + (IF status = "Sent" THEN 1 ELSE 0)
              /\ cache'[t].errors
                   = cache[t].errors + (IF status = "Error" THEN 1 ELSE 0)
              /\ worker'[t].sent = cache'[t].sent
              /\ worker'[t].errors = cache'[t].errors
              /\ worker'[t].idx = worker[t].idx
              /\ worker'[t].pc \in {"sleep", "update"}
       /\ (worker[t].pc = "update" /\ worker'[t].pc # "update")
            => worker'[t].pc = "check" /\ worker'[t].idx = worker[t].idx
       /\ (worker[t].pc = "check" /\ worker'[t].pc = "send")
            => worker'[t].idx = worker[t].idx + 1]_vars

\* Record 1 failed and record 2 was sent: the log is Error 1, Sent 2, with
\* one error and one packet sent.
C30_Witness ==
  \E t \in Tokens :
    /\ InCache(cache, t)
    /\ cache[t].log_lines = <<ErrorLine(1), SentLine(2)>>
    /\ cache[t].errors = 1
    /\ cache[t].sent = 1

\* C31: the worker sleeps delay_ms only between records.  It goes to sleep
\* only out of the step that handled a record, and then exactly when a send
\* was attempted (the packet went out or sendto raised), delay_ms > 0 and
\* the record is not the last; it never sleeps after the last record nor
\* after a packet-build failure, and out of the sleep it goes to the
\* iteration's update, so that after the last record the update, the loop
\* test and the finally block follow with no sleep.
C31_SleepsOnlyBetweenRecords ==
  [][\A t \in Tokens :
       LET w == worker[t]
           between == w.delay_ms > 0 /\ w.idx < NumRecords
       IN
       /\ (worker'[t].pc = "sleep" /\ w.pc # "sleep")
            => /\ w.pc = "send"
               /\ between
               /\ WorkerSend(t, "Sent") \/ WorkerSend(t, "SendError")
       /\ WorkerSend(t, "BuildError") => worker'[t].pc = "update"
       /\ (WorkerSend(t, "Sent") /\ between) => worker'[t].pc = "sleep"
       /\ (w.pc = "send" /\ w.pc # worker'[t].pc /\ ~between)
            => worker'[t].pc = "update"
       /\ (w.pc = "sleep" /\ worker'[t].pc # "sleep")
            => worker'[t].pc = "update" /\ worker'[t].idx = w.idx]_vars

\* A worker with a delay is asleep after a record that is not the last,
\* whose Sent line is the last line of its job's log.
C31_Witness ==
  \E t \in Tokens :
    /\ worker[t].pc = "sleep"
    /\ worker[t].delay_ms > 0
    /\ worker[t].idx < NumRecords
    /\ InCache(cache, t)
    /\ cache[t].log_lines # <<>>
    /\ cache[t].log_lines[Len(cache[t].log_lines)] = SentLine(worker[t].idx)

\* The sub-messages of a container record for which the decoder is invoked.
NonContainerMessages(messages) ==
  {k \in 1..Len(messages) : messages[k].port # 29}

\* C32: a port-29 frame whose container unpacks to M >= 1 sub-messages
\* yields exactly M rows in sub-message order, the k-th with the port and
\* the timestamp of the k-th sub-message; a sub-message of port 29 has a
\* Decoded row with an empty decoded object, a sub-message the decoder
\* rejects is the only one whose row is an Error row, and the step that
\* handles the container invokes the decoder once per sub-message whose
\* port is not 29.
C32_ContainerRows ==
  /\ [](InPass =>
         \A j \in 1..decode.idx :
           LET rec == decode.parsed[j]
               ms == rec.frame.messages
               rs == RowsOfRecord(decode.rows, j)
           IN
           (rec.frame.fport = 29 /\ ~RecordFails(rec, decode.credentials)) =>
             /\ Len(rs) = Len(ms)
             /\ \A k \in 1..Len(ms) :
                  /\ rs[k].fport = ms[k].port
                  /\ rs[k].time_unix = ms[k].timestamp
                  /\ k > 1 => rs[k].index = rs[k - 1].index + 1
                  /\ IF ms[k].port = 29
                     THEN rs[k].status = "Decoded" /\ rs[k].decoded = EmptyData
                     ELSE IF ms[k].dec_ok
                     THEN /\ rs[k].status = "Decoded"
                          /\ rs[k].decoded = DecoderOutput(ms[k].port)
                     ELSE rs[k].status = "Error" /\ rs[k].decoded = NoData)
  /\ [][(decode.pc = "loop" /\ decode'.idx = decode.idx + 1) =>
          LET rec == decode.parsed[decode.idx + 1] IN
          (rec.frame.fport = 29 /\ ~RecordFails(rec, decode.credentials)) =>
            decode'.decoder_calls
              = decode.decoder_calls
                + Cardinality(NonContainerMessages(rec.frame.messages))]_vars

\* C32 witness: a completed pass over two containers: the first holds a
\* sub-message of port 1 and one of port 29, the second a sub-message the
\* decoder rejected and one it decoded; four rows, three decoder calls.
C32_Witness ==
  /\ decode.result = "complete" /\ Len(decode.parsed) = 2
  /\ Len(decode.rows) = 4
  /\ decode.rows[2].fport = 29 /\ decode.rows[2].status = "Decoded"
  /\ decode.rows[2].decoded = EmptyData
  /\ decode.rows[3].status = "Error" /\ decode.rows[3].time_unix = <<0, 0, 1, 0>>
  /\ decode.rows[4].status = "Decoded" /\ decode.rows[4].time_unix = <<0, 0, 0, 7>>
  /\ decode.decoder_calls = 3

\* A request that reads or writes DECODE_PROGRESS: a step of a decode pass
\* or a progress poll.
TouchesProgress ==
  \/ DecodeRecord
  \/ DecodeFinish
  \/ \E u \in Users, p \in ProgressIds : DecodeProgressPoll(u, p)

\* C33: progress entries are evicted by age: a request that touches the
\* progress map leaves in it no entry that was older than the TTL before
\* the request.
C33_StaleProgressEvicted ==
  [][TouchesProgress =>
       \A p \in ProgressIds :
         (progress[p] # NoProgress /\ progress[p].stale)
           => (progress'[p] = NoProgress \/ ~progress'[p].stale)]_vars

\* C33 divergence: an entry older than the TTL is still stored beside an
\* entry a later decode pass wrote, and its user's poll still reads it.
C33_StaleProgressKept ==
  \E p \in ProgressIds, q \in ProgressIds :
    /\ progress[p] # NoProgress /\ progress[p].stale /\ progress[p].done
    /\ progress[q] # NoProgress /\ ~progress[q].stale /\ progress[q].done
    /\ viewer.answer = "ok" /\ viewer.progress_id = p
    /\ get_decode_progress(progress, p, viewer.user_id) = progress[p]

\* C34: replaying a scan leaves every cached record unchanged, with or
\* without override_rxpk: during and after the replay the cached list is
\* the list that was scanned, so a decode or a second replay reads the
\* original rxpk fields, while each packet sent carries the overrides when
\* the job asks for them and the record's own fields otherwise.
C34_CachedRecordsUnchanged ==
  call.op = "run_replay_job" =>
    /\ call.result.parsed = call.arg[1]
    /\ \A k \in 1..Len(call.result.packets) :
         LET sent == call.result.packets[k]
             rec == call.arg[1][k]
         IN IF call.arg[2]
            THEN /\ \A f \in DOMAIN REPLAY_RXPK_OVERRIDES :
                      sent[f] = REPLAY_RXPK_OVERRIDES[f]
                 /\ sent.data = rec.data
            ELSE sent = rec

\* C34 witness: a replay with override_rxpk has sent all records of a list
\* whose first record came from another channel and data rate: the packet
\* had the override values, the cached record still has its own.
C34_Witness ==
  /\ call.op = "run_replay_job" /\ call.done /\ call.arg[2]
  /\ Len(call.result.packets) = NumRecords
  /\ call.result.packets[1].datr = "SF9BW125"
  /\ call.result.parsed[1].datr = "SF7BW125"
  /\ call.result.parsed[1].freq = "867.5"
  /\ "chan" \notin DOMAIN call.result.parsed[NumRecords]

\* C35: every stored job, resumed or not, has
\* 0 <= start_index <= current_index <= total and sent + errors <= total,
\* and the current_index of a token never decreases.
C35_IndexAndCounterBounds ==
  /\ [](\A t \in Tokens :
          InCache(cache, t) =>
            /\ 0 <= cache[t].start_index
            /\ cache[t].start_index <= cache[t].current_index
            /\ cache[t].current_index <= cache[t].total
            /\ cache[t].sent + cache[t].errors <= cache[t].total)
  /\ [][\A t \in Tokens :
          (InCache(cache, t) /\ InCache(cache', t))
            => cache'[t].current_index >= cache[t].current_index]_vars

\* C35 divergence: a job resumed from a stopped job whose worker had sent
\* record 1 and not yet stored current_index = 1 sends record 1 again and
\* ends with more packets counted than the log file has records.
C35_MoreSentThanRecords ==
  \E t \in Tokens :
    /\ InCache(cache, t)
    /\ parent[t] # 0
    /\ cache[t].status = "done"
    /\ cache[t].start_index = 0
    /\ cache[t].current_index = cache[t].total
    /\ cache[t].sent + cache[t].errors > cache[t].total

\* The worker of job t has passed the loop test for a record and is
\* building and sending it.
Sending(t) == worker[t].pc = "send"

\* C36: across a job and the job resumed from it at most one worker is
\* sending a record at any time.
C36_OneWorkerSending ==
  \A t \in Tokens, u \in Tokens :
    parent[u] = t => ~(Sending(t) /\ Sending(u))

\* C36 divergence: the worker of a stopped job and the worker of the job
\* resumed from it are both sending, and both the same record.
C36_TwoWorkersSameRecord ==
  \E t \in Tokens, u \in Tokens :
    /\ parent[u] = t
    /\ cache[t].status = "stopped"
    /\ Sending(t) /\ Sending(u)
    /\ worker[t].idx = worker[u].idx

\* C37: once a status snapshot has shown the polled job done or stopped,
\* the job's log has no further line: the client that stopped polling has
\* every line the log will ever hold.
C37_NoLineAfterFinalSnapshot ==
  /\ [][(poller.done /\ poller'.token = poller.token
         /\ InCache(cache, poller.token) /\ InCache(cache', poller.token))
          => cache'[poller.token].log_lines = cache[poller.token].log_lines]_vars
  /\ []((poller.done /\ InCache(cache, poller.token))
          => poller.lines = cache[poller.token].log_lines)

\* C37 divergence: the client saw stopped and stopped polling with the
\* lines up to the Stopped line; the worker, which had passed its loop test
\* before the stop, then sent its record, and the Sent line it appended
\* lies in the log behind the client's last line.
C37_LineAfterStoppedSnapshot ==
  LET t == poller.token IN
  /\ poller.done /\ poller.status = "stopped"
  /\ InCache(cache, t)
  /\ Len(cache[t].log_lines) = Len(poller.lines) + 1
  /\ poller.lines[Len(poller.lines)] = StoppedLine
  /\ cache[t].log_lines[Len(cache[t].log_lines)].status = "Sent"
  /\ cache[t].sent = poller.sent + 1

\* C38: for every uplink built by build_abp_uplink, whatever its frame
\* counter, parsing the frame and decrypting its FRMPayload with the frame
\* counter that parse returns yields the application payload.
C38_RoundTripEveryCounter ==
  (Keyed /\ call.arg.generated) =>
    /\ call.result.uplink.ok
    /\ call.result.uplink.fcnt = call.arg.fcnt % 65536
    /\ call.result.decrypted.ok
    /\ call.result.decrypted.bytes = call.arg.app_payload

\* C38 divergence: a frame built with frame counter 65536 carries 0 in its
\* FCnt field; decode decrypts it with 0 and gets bytes that are not the
\* application payload, which the counter of the generator would give.
C38_HighCounterGarbled ==
  /\ Keyed /\ call.arg.generated
  /\ call.arg.fcnt = 65536
  /\ call.result.uplink.fcnt = 0
  /\ call.result.decrypted.ok
  /\ call.result.decrypted.bytes # call.arg.app_payload
  /\ lorawan_decrypt_payload(call.result.key, call.result.uplink.devaddr_le,
                             call.arg.fcnt, call.result.uplink.frm_payload,
                             0).bytes = call.arg.app_payload

\* C39: a decode request of one user leaves what another user's poll
\* returns unchanged: no step of a request or pass of a user other than a
\* changes the answer to a's poll of a progress id under which a has
\* published progress.
C39_ProgressIsolated ==
  [][\A a \in Users, p \in ProgressIds :
       (get_decode_progress(progress, p, a) # NoProgress
        /\ decode'.user_id # a)
         => get_decode_progress(progress', p, a)
              = get_decode_progress(progress, p, a)]_vars

\* C39 divergence: a user's last poll of a progress id was answered with
\* the progress of that user's pass; the entry now belongs to another user,
\* whose request named the same id, and the next poll is answered not_found.
C39_ProgressTakenOver ==
  \E p \in ProgressIds :
    /\ viewer.answer = "ok" /\ viewer.progress_id = p
    /\ progress[p] # NoProgress
    /\ progress[p].user_id # viewer.user_id
    /\ decode.user_id = progress[p].user_id /\ decode.progress_id = p
    /\ get_decode_progress(progress, p, viewer.user_id) = NoProgress

=============================================================================
